---------------------------- MODULE Spec2Model ----------------------------
(***************************************************************************)
(* Verification model of the aggTrades research pipeline:                  *)
(*   - the `data` command (runData / processDay): worker pool, per-month   *)
(*     directory lock, append-only data file and QIDX index;               *)
(*   - the information-time ring (Core.Update);                            *)
(*   - the evaluator's alignment sweep (AlignVectors);                     *)
(*   - the study's IS/OOS aggregation loop (studySymbol);                  *)
(*   - the feature builder's per-day step (processBuildDay).               *)
(* Each part has its own specification over its own variables; the other   *)
(* variables stay at their initial values.                                 *)
(***************************************************************************)
EXTENDS Integers, Sequences, FiniteSets, Bags, TLC

(***************************************************************************)
(* Bounds of the model.                                                    *)
(***************************************************************************)
NumWorkers == 2
MaxDays == 3
MaxCalls == 3
TornMax == 1
RingN == 3
MaxTicks == 5
MaxL == 3
MaxN == 3
MaxT == 3
MaxStudyDays == 3
ResCap == 1
MaxBuildDays == 2
MaxRows == 2
MaxRuns == 2
MaxSanRows == 2
MaxZ == 8

(***************************************************************************)
(* Program constants.                                                      *)
(***************************************************************************)
ZlibMagic == 120
AggMagic == 65
NumBuckets == 5
FeatRowBytes == 20
HeaderSize == 48
RowSize == 48
Float32Bytes == 4
StudyValueBytes == 8
StudyMaxDims == 5

None == 0
Workers == 1..NumWorkers

VARIABLES pending, jobsCh, jobsClosed, stopEvent, resultsCh, resultsClosed,
          pc, job, offset, currentCount, mu, dataFile, idxFile,
          calls, begun, afterStop, delivered, dirLocks, lk

dataVars == <<pending, jobsCh, jobsClosed, stopEvent, resultsCh, resultsClosed,
              pc, job, offset, currentCount, mu, dataFile, idxFile,
              calls, begun, afterStop, delivered, dirLocks, lk>>

\* The information-time ring: its configuration, the Core struct and the
\* SnapPair returned by the last Update.
VARIABLES cfg, core, snaps, fed, peak
ringVars == <<cfg, core, snaps, fed, peak>>

\* The alignment sweep: its inputs, loop cursors and emitted pairs.
VARIABLES al
alignVars == <<al>>

\* studySymbol: the days on disk, the task list, job and result channels,
\* the workers, the main loop and its accumulators.
VARIABLES dayFiles, tasks, sPending, jobsChan, jobsChanClosed, sPc, sRes,
          resultsChan, resultsChanClosed, mainPc, acc
studyVars == <<dayFiles, tasks, sPending, jobsChan, jobsChanClosed, sPc, sRes,
               resultsChan, resultsChanClosed, mainPc, acc>>

\* buildVariant / processBuildDay: the stored days, the feature files, the
\* file-system clock, the run counter, the jobs channel and the workers.
VARIABLES store, featFile, clock, runs, bJobs, bPc, bTask, skipped
buildVars == <<store, featFile, clock, runs, bJobs, bPc, bTask, skipped>>

\* validateMonth (sanity): the month directory, the row cursor and the issue
\* counter.  KernelState.Update: the kernel state and the last emitted kernels.
VARIABLES san, ker
toolVars == <<san, ker>>

vars == <<dataVars, ringVars, alignVars, studyVars, buildVars, toolVars>>
nonDataVars == <<ringVars, alignVars, studyVars, buildVars, toolVars>>
nonRingVars == <<dataVars, alignVars, studyVars, buildVars, toolVars>>
nonAlignVars == <<dataVars, ringVars, studyVars, buildVars, toolVars>>
nonStudyVars == <<dataVars, ringVars, alignVars, buildVars, toolVars>>
nonBuildVars == <<dataVars, ringVars, alignVars, studyVars, toolVars>>
nonToolVars == <<dataVars, ringVars, alignVars, studyVars, buildVars>>
runVars == <<pending, jobsCh, jobsClosed, stopEvent, resultsClosed,
             calls, begun, afterStop>>

\* Placeholder initial values of the parts a specification does not run.
IdleRing == cfg = 0 /\ core = 0 /\ snaps = 0 /\ fed = 0 /\ peak = 0
IdleSanity == san = 0
IdleKernel == ker = 0
IdleAlign == al = 0
IdleStudy ==
    /\ dayFiles = 0 /\ tasks = 0 /\ sPending = 0 /\ jobsChan = 0
    /\ jobsChanClosed = 0 /\ sPc = 0 /\ sRes = 0 /\ resultsChan = 0
    /\ resultsChanClosed = 0 /\ mainPc = 0 /\ acc = 0
IdleBuild ==
    /\ store = 0 /\ featFile = 0 /\ clock = 0 /\ runs = 0
    /\ bJobs = 0 /\ bPc = 0 /\ bTask = 0 /\ skipped = 0
IdleData ==
    /\ pending = 0 /\ jobsCh = 0 /\ jobsClosed = 0 /\ stopEvent = 0
    /\ resultsCh = 0 /\ resultsClosed = 0 /\ pc = 0 /\ job = 0 /\ offset = 0
    /\ currentCount = 0 /\ mu = 0 /\ dataFile = 0 /\ idxFile = 0
    /\ calls = 0 /\ begun = 0 /\ afterStop = 0 /\ delivered = 0
    /\ dirLocks = 0 /\ lk = 0

(***************************************************************************)
(* Days.  runData enumerates consecutive calendar days; the model takes    *)
(* the days from the 30th of a 31-day month on, so that the run crosses a  *)
(* month boundary.  A job is <<month, day-of-month>>.                      *)
(***************************************************************************)
DayAt(k) == IF k <= 2 THEN <<1, 29 + k>> ELSE <<2, k - 2>>
RunDays == [k \in 1..MaxDays |-> DayAt(k)]
AllDays == {DayAt(k) : k \in 1..MaxDays}
Months == {d[1] : d \in AllDays}
MonthOf(d) == d[1]
DayOf(d) == d[2]
NoJob == <<0, 0>>
\* The mutexes a call may allocate: one per month directory and maker.
MutexIds == Months \X Workers
NoMutex == <<0, 0>>

(***************************************************************************)
(* Codec.  A raw AGG3 blob is a byte sequence: magic, day, row count, then *)
(* one byte per row.  Compression frames the blob (zlib header byte and    *)
(* length) and decompression undoes exactly that framing; the checksum is  *)
(* a position-weighted hash of the raw bytes.                              *)
(***************************************************************************)
RowCountOf(d) == 1 + (DayOf(d) % 2)
RawBlob(d) ==
    <<AggMagic, DayOf(d), RowCountOf(d)>> \o
    [i \in 1..RowCountOf(d) |-> 10 * MonthOf(d) + i]

Compress(raw) == <<ZlibMagic, Len(raw)>> \o raw

DecompressOK(c) == Len(c) >= 2 /\ c[1] = ZlibMagic /\ c[2] = Len(c) - 2
Decompress(c) == IF DecompressOK(c) THEN SubSeq(c, 3, Len(c)) ELSE <<>>

RECURSIVE HashFrom(_, _)
HashFrom(raw, i) ==
    IF i > Len(raw) THEN 7
    ELSE (raw[i] * i + 31 * HashFrom(raw, i + 1)) % 251
Sum8(raw) == HashFrom(raw, 1)

(***************************************************************************)
(* isIndexed: header present with the QIDX magic, then scan the first      *)
(* `count` rows (stopping at a short read) for the day.                    *)
(***************************************************************************)
ScanLen(ix) == IF ix.count < Len(ix.rows) THEN ix.count ELSE Len(ix.rows)
isIndexed(ix, day) ==
    /\ ix.hdr
    /\ \E i \in 1..ScanLen(ix) : ix.rows[i].day = day

IndexRowRawLen(d, off) ==
    [day |-> DayOf(d), offset |-> off,
     length |-> Len(RawBlob(d)), checksum |-> Sum8(RawBlob(d))]

\* The 26-byte row: day, offset, len(compBlob), checksum of the raw blob.
IndexRow(d, off) ==
    [day |-> DayOf(d), offset |-> off,
     length |-> Len(Compress(RawBlob(d))), checksum |-> Sum8(RawBlob(d))]

EmptyIndex == [hdr |-> FALSE, count |-> 0, rows |-> <<>>]

(***************************************************************************)
(* Program positions of a worker.                                          *)
(***************************************************************************)
LockedPcs == {"check1", "check2", "openData", "statData", "writeData",
              "openIdx", "writeRow", "readCount", "writeCount"}
WritePcs == LockedPcs \ {"check1", "check2"}
InProcessDay == LockedPcs \cup {"lock1", "fetch", "lock2"}

InitData ==
    /\ pending = RunDays
    /\ jobsCh = <<>>
    /\ jobsClosed = FALSE
    /\ stopEvent = FALSE
    /\ resultsCh = EmptyBag
    /\ resultsClosed = FALSE
    /\ pc = [w \in Workers |-> "idle"]
    /\ job = [w \in Workers |-> NoJob]
    /\ offset = [w \in Workers |-> 0]
    /\ currentCount = [w \in Workers |-> 0]
    /\ mu = [k \in MutexIds |-> None]
    /\ dirLocks = [m \in Months |-> NoMutex]
    /\ lk = [w \in Workers |-> NoMutex]
    /\ dataFile = [m \in Months |-> <<>>]
    /\ idxFile = [m \in Months |-> EmptyIndex]
    /\ calls = 0
    /\ begun = {}
    /\ afterStop = {}
    /\ delivered = {}


(***************************************************************************)
(* processDay.  m is the month directory of the worker's day.  dirLocks is *)
(* the sync.Map from directory path to mutex, lk[w] the mutex pointer the  *)
(* call obtained from it (the local mu), and mu[k] the worker holding      *)
(* mutex k.  A mutex made by worker w for month m is <<m, w>>.             *)
(***************************************************************************)
\* A map that keeps no entry: every caller gets the mutex it brought.
LoadOrStoreNothing(locks, key, new) == new

\* sync.Map.LoadOrStore: the value already stored for the key, else new.
LoadOrStore(locks, key, new) ==
    IF locks[key] # NoMutex THEN locks[key] ELSE new

\* muAny, _ := dirLocks.LoadOrStore(dirPath, &sync.Mutex{}); mu := muAny.
Resolve(w, d) ==
    LET got == LoadOrStore(dirLocks, MonthOf(d), <<MonthOf(d), w>>)
    IN /\ dirLocks' = [dirLocks EXCEPT ![MonthOf(d)] = got]
       /\ lk' = [lk EXCEPT ![w] = got]

FetchOutcomes == {"missing", "error_dl", "error_parse", "empty",
                  "error_zlib", "error_zlib_write", "error_zlib_close"}

Goto(w, p) == pc' = [pc EXCEPT ![w] = p]

\* return <outcome>: the deferred mu.Unlock() runs if the second lock is held,
\* the locals of the call die, and the worker loop sends the outcome string to
\* the results channel (capacity len(days): the send never blocks, so return
\* and send are one step).  The channel is kept as the bag of its messages.
ReturnLeaked(w, outcome) ==
    /\ pc' = [pc EXCEPT ![w] = "idle"]
    /\ resultsCh' = resultsCh (+) SetToBag({outcome})
    /\ delivered' = delivered \cup {job[w]}
    /\ job' = [job EXCEPT ![w] = NoJob]
    /\ offset' = [offset EXCEPT ![w] = 0]
    /\ currentCount' = [currentCount EXCEPT ![w] = 0]
    /\ lk' = [lk EXCEPT ![w] = NoMutex]
    /\ mu' = mu

Return(w, outcome) ==
    /\ pc' = [pc EXCEPT ![w] = "idle"]
    /\ resultsCh' = resultsCh (+) SetToBag({outcome})
    /\ delivered' = delivered \cup {job[w]}
    /\ job' = [job EXCEPT ![w] = NoJob]
    /\ offset' = [offset EXCEPT ![w] = 0]
    /\ currentCount' = [currentCount EXCEPT ![w] = 0]
    /\ lk' = [lk EXCEPT ![w] = NoMutex]
    /\ mu' = [k \in MutexIds |-> IF mu[k] = w THEN None ELSE mu[k]]

\* Tail of a step that stays inside processDay.
Stay == UNCHANGED <<job, resultsCh, delivered, dirLocks, lk, runVars,
                   nonDataVars>>
\* Tail of a step that returns.
Rest == UNCHANGED <<dirLocks, runVars, nonDataVars>>

Lock1NoLock(w) ==
    /\ pc[w] = "lock1"
    /\ Goto(w, "check1")
    /\ UNCHANGED <<mu, offset, currentCount, dataFile, idxFile>>
    /\ Stay

\* mu.Lock() before the first isIndexed.
Lock1(w) ==
    /\ pc[w] = "lock1"
    /\ mu[lk[w]] = None
    /\ mu' = [mu EXCEPT ![lk[w]] = w]
    /\ Goto(w, "check1")
    /\ UNCHANGED <<offset, currentCount, dataFile, idxFile>>
    /\ Stay

\* indexed := isIndexed(idxPath, day); mu.Unlock(); if indexed { return "skip" }.
Check1(w) ==
    /\ pc[w] = "check1"
    /\ IF isIndexed(idxFile[MonthOf(job[w])], DayOf(job[w]))
          THEN /\ Return(w, "skip")
               /\ Rest
          ELSE /\ mu' = [mu EXCEPT ![lk[w]] = None]
               /\ Goto(w, "fetch")
               /\ UNCHANGED <<offset, currentCount>>
               /\ Stay
    /\ UNCHANGED <<dataFile, idxFile>>

\* download, fastZipToAgg3, zlib compression and the checksum: no shared state.
Fetch(w) ==
    /\ pc[w] = "fetch"
    /\ Goto(w, "lock2")
    /\ UNCHANGED <<mu, offset, currentCount, dataFile, idxFile>>
    /\ Stay

FetchFail(w) ==
    /\ pc[w] = "fetch"
    /\ \E o \in FetchOutcomes : Return(w, o)
    /\ UNCHANGED <<dataFile, idxFile>>
    /\ Rest

\* mu.Lock(); defer mu.Unlock().
Lock2(w) ==
    /\ pc[w] = "lock2"
    /\ mu[lk[w]] = None
    /\ mu' = [mu EXCEPT ![lk[w]] = w]
    /\ Goto(w, "check2")
    /\ UNCHANGED <<offset, currentCount, dataFile, idxFile>>
    /\ Stay

Check2NoRecheck(w) ==
    /\ pc[w] = "check2"
    /\ Goto(w, "openData")
    /\ UNCHANGED <<mu, offset, currentCount, dataFile, idxFile>>
    /\ Stay

\* if isIndexed(idxPath, day) { return "skip_race" }.
Check2(w) ==
    /\ pc[w] = "check2"
    /\ IF isIndexed(idxFile[MonthOf(job[w])], DayOf(job[w]))
          THEN /\ Return(w, "skip_race")
               /\ Rest
          ELSE /\ Goto(w, "openData")
               /\ UNCHANGED <<mu, offset, currentCount>>
               /\ Stay
    /\ UNCHANGED <<dataFile, idxFile>>

\* os.MkdirAll and os.OpenFile(dataPath, O_CREATE|O_APPEND|O_WRONLY).
OpenData(w) ==
    /\ pc[w] = "openData"
    /\ Goto(w, "statData")
    /\ UNCHANGED <<mu, offset, currentCount, dataFile, idxFile>>
    /\ Stay

OpenDataFail(w) ==
    /\ pc[w] = "openData"
    /\ \E o \in {"error_mkdir", "error_io"} : Return(w, o)
    /\ UNCHANGED <<dataFile, idxFile>>
    /\ Rest

\* fData.Stat(): the current size is the offset of the blob about to be written.
StatData(w) ==
    /\ pc[w] = "statData"
    /\ offset' = [offset EXCEPT ![w] = Len(dataFile[MonthOf(job[w])])]
    /\ Goto(w, "writeData")
    /\ UNCHANGED <<mu, currentCount, dataFile, idxFile>>
    /\ Stay

StatDataFail(w) ==
    /\ pc[w] = "statData"
    /\ Return(w, "error_stat")
    /\ UNCHANGED <<dataFile, idxFile>>
    /\ Rest

\* The write of a descriptor opened without O_APPEND: the bytes go to offset 0.
WriteDataNoAppend(w) ==
    /\ pc[w] = "writeData"
    /\ dataFile' = [dataFile EXCEPT ![MonthOf(job[w])] =
                        Compress(RawBlob(job[w])) \o
                        SubSeq(@, Len(Compress(RawBlob(job[w]))) + 1, Len(@))]
    /\ Goto(w, "openIdx")
    /\ UNCHANGED <<mu, offset, currentCount, idxFile>>
    /\ Stay

\* fData.Write(compBlob) on an O_APPEND descriptor: the bytes go to the end.
WriteData(w) ==
    /\ pc[w] = "writeData"
    /\ dataFile' = [dataFile EXCEPT ![MonthOf(job[w])] =
                        @ \o Compress(RawBlob(job[w]))]
    /\ Goto(w, "openIdx")
    /\ UNCHANGED <<mu, offset, currentCount, idxFile>>
    /\ Stay

\* A failed write may leave a proper prefix of the blob in the file
\* (every blob is longer than TornMax bytes).
WriteDataFail(w) ==
    /\ pc[w] = "writeData"
    /\ \E k \in 0..TornMax :
          dataFile' = [dataFile EXCEPT ![MonthOf(job[w])] =
                          @ \o SubSeq(Compress(RawBlob(job[w])), 1, k)]
    /\ Return(w, "error_write")
    /\ UNCHANGED idxFile
    /\ Rest

\* os.OpenFile(idxPath, O_CREATE|O_RDWR), Stat, and the fresh header
\* (magic, version, count = 0) when the file is empty.
OpenIdx(w) ==
    /\ pc[w] = "openIdx"
    /\ idxFile' = [idxFile EXCEPT ![MonthOf(job[w])] =
                      IF @.hdr THEN @ ELSE [@ EXCEPT !.hdr = TRUE, !.count = 0]]
    /\ Goto(w, "writeRow")
    /\ UNCHANGED <<mu, offset, currentCount, dataFile>>
    /\ Stay

OpenIdxFail(w) ==
    /\ pc[w] = "openIdx"
    /\ \E o \in {"error_idx", "error_idx_stat", "error_idx_hdr"} : Return(w, o)
    /\ UNCHANGED <<dataFile, idxFile>>
    /\ Rest

\* Seek(0, SeekEnd) and Write(row).
WriteRow(w) ==
    /\ pc[w] = "writeRow"
    /\ idxFile' = [idxFile EXCEPT ![MonthOf(job[w])].rows =
                      Append(@, IndexRow(job[w], offset[w]))]
    /\ Goto(w, "readCount")
    /\ UNCHANGED <<mu, offset, currentCount, dataFile>>
    /\ Stay

WriteRowFail(w) ==
    /\ pc[w] = "writeRow"
    /\ \E o \in {"error_idx_seek", "error_idx_write"} : Return(w, o)
    /\ UNCHANGED <<dataFile, idxFile>>
    /\ Rest

\* Seek(8, SeekStart) and binary.Read(&currentCount).
ReadCount(w) ==
    /\ pc[w] = "readCount"
    /\ currentCount' = [currentCount EXCEPT ![w] = idxFile[MonthOf(job[w])].count]
    /\ Goto(w, "writeCount")
    /\ UNCHANGED <<mu, offset, dataFile, idxFile>>
    /\ Stay

ReadCountFail(w) ==
    /\ pc[w] = "readCount"
    /\ \E o \in {"error_idx_seek", "error_idx_read"} : Return(w, o)
    /\ UNCHANGED <<dataFile, idxFile>>
    /\ Rest

WriteCountSame(w) ==
    /\ pc[w] = "writeCount"
    /\ idxFile' = [idxFile EXCEPT ![MonthOf(job[w])].count = currentCount[w]]
    /\ Return(w, "ok")
    /\ UNCHANGED dataFile
    /\ Rest

\* Seek(8, SeekStart), binary.Write(currentCount+1), return "ok".
WriteCount(w) ==
    /\ pc[w] = "writeCount"
    /\ idxFile' = [idxFile EXCEPT ![MonthOf(job[w])].count = currentCount[w] + 1]
    /\ Return(w, "ok")
    /\ UNCHANGED dataFile
    /\ Rest

WriteCountFail(w) ==
    /\ pc[w] = "writeCount"
    /\ \E o \in {"error_idx_seek", "error_idx_write"} : Return(w, o)
    /\ UNCHANGED <<dataFile, idxFile>>
    /\ Rest

(***************************************************************************)
(* runData: the signal goroutine, the dispatcher (main goroutine) and the  *)
(* worker loop `for d := range jobs`.                                      *)
(***************************************************************************)
workerVars == <<pc, job, offset, currentCount, mu, dataFile, idxFile,
                resultsCh, delivered, dirLocks, lk>>

\* The signal goroutine: stopEvent.Store(true).
Signal ==
    /\ ~stopEvent
    /\ stopEvent' = TRUE
    /\ UNCHANGED <<pending, jobsCh, jobsClosed, resultsClosed, calls, begun,
                   afterStop, workerVars, nonDataVars>>

\* jobs <- d (the channel's capacity is len(days): the send never blocks).
Dispatch ==
    /\ pending # <<>>
    /\ jobsCh' = Append(jobsCh, Head(pending))
    /\ pending' = Tail(pending)
    /\ UNCHANGED <<jobsClosed, stopEvent, resultsClosed, calls, begun,
                   afterStop, workerVars, nonDataVars>>

CloseJobs ==
    /\ pending = <<>>
    /\ ~jobsClosed
    /\ jobsClosed' = TRUE
    /\ UNCHANGED <<pending, jobsCh, stopEvent, resultsClosed, calls, begun,
                   afterStop, workerVars, nonDataVars>>

\* wg.Wait() returns once every worker has exited; then close(results).
CloseResults ==
    /\ jobsClosed
    /\ ~resultsClosed
    /\ \A w \in Workers : pc[w] = "exit"
    /\ resultsClosed' = TRUE
    /\ UNCHANGED <<pending, jobsCh, jobsClosed, stopEvent, calls, begun,
                   afterStop, workerVars, nonDataVars>>

\* The worker receives the next day from the jobs channel.
Take(w) ==
    /\ pc[w] = "idle"
    /\ jobsCh # <<>>
    /\ job' = [job EXCEPT ![w] = Head(jobsCh)]
    /\ jobsCh' = Tail(jobsCh)
    /\ Goto(w, "chk")
    /\ afterStop' = IF stopEvent THEN afterStop \cup {Head(jobsCh)} ELSE afterStop
    /\ UNCHANGED <<pending, jobsClosed, stopEvent, resultsClosed, calls, begun,
                   offset, currentCount, mu, dataFile, idxFile, resultsCh,
                   delivered, dirLocks, lk, nonDataVars>>

\* A worker loop that keeps waiting on the closed and drained channel.
ExitNever(w) ==
    /\ pc[w] = "idle"
    /\ jobsCh = <<>>
    /\ jobsClosed
    /\ UNCHANGED vars

\* range over a closed and drained channel ends the loop.
Exit(w) ==
    /\ pc[w] = "idle"
    /\ jobsCh = <<>>
    /\ jobsClosed
    /\ Goto(w, "exit")
    /\ UNCHANGED <<job, offset, currentCount, mu, dataFile, idxFile, resultsCh,
                   delivered, dirLocks, lk, runVars, nonDataVars>>

CheckStopIgnored(w) ==
    /\ pc[w] = "chk"
    /\ Goto(w, "lock1")
    /\ Resolve(w, job[w])
    /\ begun' = begun \cup {job[w]}
    /\ UNCHANGED <<pending, jobsCh, jobsClosed, stopEvent, resultsClosed, calls,
                   afterStop, job, offset, currentCount, mu, dataFile, idxFile,
                   resultsCh, delivered, nonDataVars>>

\* if stopEvent.Load() { return }; otherwise processDay(d) starts.
CheckStop(w) ==
    /\ pc[w] = "chk"
    /\ IF stopEvent
          THEN /\ Goto(w, "exit")
               /\ job' = [job EXCEPT ![w] = NoJob]
               /\ begun' = begun
               /\ UNCHANGED <<dirLocks, lk>>
          ELSE /\ Goto(w, "lock1")
               /\ Resolve(w, job[w])
               /\ job' = job
               /\ begun' = begun \cup {job[w]}
    /\ UNCHANGED <<pending, jobsCh, jobsClosed, stopEvent, resultsClosed, calls,
                   afterStop, offset, currentCount, mu, dataFile, idxFile,
                   resultsCh, delivered, nonDataVars>>

\* A direct call processDay(d) for an arbitrary day.
Call(w) ==
    /\ pc[w] = "idle"
    /\ calls < MaxCalls
    /\ calls' = calls + 1
    /\ \E d \in AllDays :
          /\ job' = [job EXCEPT ![w] = d]
          /\ begun' = begun \cup {d}
          /\ Resolve(w, d)
    /\ Goto(w, "lock1")
    /\ UNCHANGED <<pending, jobsCh, jobsClosed, stopEvent, resultsClosed,
                   afterStop, offset, currentCount, mu, dataFile, idxFile,
                   resultsCh, delivered, nonDataVars>>

\* The steps of processDay in which every I/O call succeeds.
ProcessDayStep(w) ==
    \/ Lock1(w) \/ Check1(w) \/ Fetch(w) \/ FetchFail(w) \/ Lock2(w)
    \/ Check2(w) \/ OpenData(w) \/ StatData(w) \/ WriteData(w) \/ OpenIdx(w)
    \/ WriteRow(w) \/ ReadCount(w) \/ WriteCount(w)

\* I/O failures before the index row is written.
EarlyFault(w) ==
    \/ OpenDataFail(w) \/ StatDataFail(w) \/ WriteDataFail(w)
    \/ OpenIdxFail(w) \/ WriteRowFail(w)

\* I/O failures after the index row is written.
LateFault(w) == ReadCountFail(w) \/ WriteCountFail(w)

(***************************************************************************)
(* Specifications of the data command.                                     *)
(*   SpecData:   runData as written: the days of the run are distinct,     *)
(*               every I/O call may fail, the stop signal may arrive at    *)
(*               any time.                                                 *)
(*   SpecAppend: processDay called directly, by concurrent workers, for    *)
(*               arbitrary (possibly equal) days; I/O calls may fail up to *)
(*               and including the write of the index row.                 *)
(***************************************************************************)
NextData ==
    \/ Signal
    \/ Dispatch
    \/ CloseJobs
    \/ CloseResults
    \/ \E w \in Workers :
          \/ Take(w)
          \/ Exit(w)
          \/ CheckStop(w)
          \/ ProcessDayStep(w)
          \/ EarlyFault(w)
          \/ LateFault(w)

NextAppend ==
    \E w \in Workers :
       \/ Call(w)
       \/ ProcessDayStep(w)
       \/ EarlyFault(w)

InitDataOnly ==
    InitData /\ IdleRing /\ IdleAlign /\ IdleStudy /\ IdleBuild
    /\ IdleSanity /\ IdleKernel
SpecData == InitDataOnly /\ [][NextData]_vars
SpecAppend == InitDataOnly /\ [][NextAppend]_vars

\* runData with every file-system call succeeding (downloads and parsing may
\* still fail).  RunDataStep is every step of runData's own goroutines, that
\* is every step but the arrival of the interrupt: the Go scheduler does not
\* stop while one of them can run, and the signal may come at any time or
\* never.
RunDataStep ==
    \/ Dispatch
    \/ CloseJobs
    \/ CloseResults
    \/ \E w \in Workers :
          \/ Take(w)
          \/ Exit(w)
          \/ CheckStop(w)
          \/ ProcessDayStep(w)
NextRun == Signal \/ RunDataStep
FairData == WF_vars(RunDataStep)
SpecRunFair == InitDataOnly /\ [][NextRun]_vars /\ FairData

\* processDay called directly, repeatedly and concurrently, for arbitrary
\* days, with every I/O call allowed to fail: a day whose call failed is
\* called again, as a later run of the data command does.
NextRerun ==
    \E w \in Workers :
       \/ Call(w)
       \/ ProcessDayStep(w)
       \/ EarlyFault(w)
       \/ LateFault(w)
SpecRerun == InitDataOnly /\ [][NextRerun]_vars

(***************************************************************************)
(* Properties of the data command.                                         *)
(***************************************************************************)
Rows(m) == idxFile[m].rows
\* The worker holding the mutex that dirLocks stores for month m.
Holder(m) == IF dirLocks[m] = NoMutex THEN None ELSE mu[dirLocks[m]]
AllIdle == \A w \in Workers : pc[w] = "idle"

Quiet(m) ==
    \A w \in Workers :
        pc[w] \in {"readCount", "writeCount"} => MonthOf(job[w]) # m
AllOk == \A o \in BagToSet(resultsCh) : o = "ok"
DaysAppended(m) == Cardinality({d \in delivered : MonthOf(d) = m})

\* C2: when every processDay call that returned so far returned "ok" (each
\* for a different day, under any interleaving), then for every month with
\* no append in its row/count section the header count equals the number of
\* rows in the index file and the number of days appended.
C2_CountEqualsRows ==
    AllOk =>
        \A m \in Months :
            Quiet(m) =>
                /\ idxFile[m].count = Len(Rows(m))
                /\ idxFile[m].count = DaysAppended(m)

\* Two days of one month were appended and both calls returned "ok".
C2_Witness ==
    /\ AllOk
    /\ AllIdle
    /\ \E m \in Months : DaysAppended(m) >= 2 /\ idxFile[m].count >= 2

Slice(m, r) == SubSeq(dataFile[m], r.offset + 1, r.offset + r.length)

\* C3: every row of a month's index references exactly the bytes written
\* for its day: the slice [offset, offset+length) of the data file is the
\* compressed blob of that day, it decompresses, and the checksum of the
\* decompression is the row's checksum.
C3_RowsReferenceTheirBlob ==
    \A m \in Months : \A i \in 1..Len(Rows(m)) :
        /\ Rows(m)[i].offset + Rows(m)[i].length <= Len(dataFile[m])
        /\ Slice(m, Rows(m)[i]) = Compress(RawBlob(<<m, Rows(m)[i].day>>))
        /\ DecompressOK(Slice(m, Rows(m)[i]))
        /\ Sum8(Decompress(Slice(m, Rows(m)[i]))) = Rows(m)[i].checksum

\* A row whose blob starts after the bytes that a failed write of another
\* day left at the head of the data file.
C3_Witness ==
    \E m \in Months :
        /\ Len(Rows(m)) >= 1
        /\ Rows(m)[1].offset > 0

\* C8: a job taken from the channel after the stop flag was set is never
\* started, and a job that was started is either still being processed or
\* its result has been delivered: the flag never abandons a job in progress.
C8_GracefulStop ==
    /\ afterStop \cap begun = {}
    /\ \A d \in begun :
          \/ d \in delivered
          \/ \E w \in Workers : job[w] = d /\ pc[w] \in InProcessDay

\* The flag is set, one worker dropped a job it took afterwards and exited,
\* and a job that was in progress has been carried on into the write section.
C8_Witness ==
    /\ stopEvent
    /\ afterStop # {}
    /\ \E w \in Workers : pc[w] \in WritePcs

\* C9: the directory mutex is held only by a worker that is inside the
\* locked section of processDay for that month: whatever outcome a call
\* returned, it did not leave the mutex locked.
C9_LockReleasedOnReturn ==
    \A k \in MutexIds :
        mu[k] # None =>
            /\ pc[mu[k]] \in LockedPcs
            /\ lk[mu[k]] = k
            /\ MonthOf(job[mu[k]]) = k[1]

\* Calls have returned through the early exit, through error exits inside
\* the locked section and through "ok", and every mutex is free.
C9_Witness ==
    /\ AllIdle
    /\ BagIn("error_idx_read", resultsCh)
    /\ BagIn("error_write", resultsCh)
    /\ BagIn("ok", resultsCh)
    /\ \A k \in MutexIds : mu[k] = None

\* C10: a worker that is reading or writing a month's index or data file
\* holds that month's mutex, so while one worker is inside the locked
\* section no other worker reads that month's files.
C10_ReadsUnderLock ==
    \A w \in Workers :
        pc[w] \in LockedPcs => Holder(MonthOf(job[w])) = w

\* One worker is appending to a month while another worker waits for the
\* same month's mutex to read the index.
C10_Witness ==
    \E w, v \in Workers :
        /\ w # v
        /\ pc[w] \in WritePcs
        /\ pc[v] \in {"lock1", "lock2"}
        /\ MonthOf(job[w]) = MonthOf(job[v])

\* Both channels have room for every day of the run, so no send blocks; the
\* results channel is closed only after every worker has exited.
NoSendBlocks ==
    /\ Len(pending) + Len(jobsCh) <= Len(RunDays)
    /\ BagCardinality(resultsCh) <= Len(RunDays)
    /\ resultsClosed => \A w \in Workers : pc[w] = "exit"

RunDataFinished ==
    /\ resultsClosed
    /\ jobsClosed
    /\ \A w \in Workers : pc[w] = "exit"

\* C25: whenever the stop flag is set (before, during or after dispatch, or
\* never), runData terminates: no send ever finds its channel full, every
\* worker exits, and the results channel is closed once, after the last
\* worker has exited.
C25_RunDataTerminates ==
    /\ []NoSendBlocks
    /\ [][resultsClosed => resultsClosed']_vars
    /\ <>[]RunDataFinished

\* The flag was set while jobs were still in the channel: a worker dropped
\* the job it took and exited, jobs are left in the channel, and runData
\* has closed the results channel.
C25_Witness ==
    /\ stopEvent
    /\ afterStop # {}
    /\ jobsCh # <<>>
    /\ resultsClosed

\* C22: two workers that resolve the lock of the same month directory hold
\* the same mutex, and no two workers are at the same time inside the write
\* section (data append, index row append, count update) of one month.
C22_OneLockPerMonth ==
    \A w, v \in Workers :
        (w # v /\ lk[w] # NoMutex /\ lk[v] # NoMutex
               /\ MonthOf(job[w]) = MonthOf(job[v])) =>
            /\ lk[w] = lk[v]
            /\ ~(pc[w] \in WritePcs /\ pc[v] \in WritePcs)

\* A worker is inside the write section of a month under the mutex another
\* worker made and stored, while that other worker waits for it with a day
\* of the same month.
C22_Witness ==
    \E w, v \in Workers :
        /\ w # v
        /\ pc[w] \in WritePcs
        /\ pc[v] = "lock2"
        /\ MonthOf(job[w]) = MonthOf(job[v])
        /\ lk[w] = <<MonthOf(job[w]), v>>
        /\ lk[v] = lk[w]

\* C23: whatever earlier appends to the month failed after the blob was
\* written, an append that returns "ok" leaves its day locatable through the
\* index: the day is found among the first `count` rows.
C23_OkAppendIsLocatable ==
    [][\A w \in Workers :
          (pc[w] = "writeCount" /\ pc'[w] = "idle" /\ idxFile' # idxFile) =>
              isIndexed(idxFile'[MonthOf(job[w])], DayOf(job[w]))
      ]_vars

IsPrefix(a, b) == Len(a) <= Len(b) /\ SubSeq(b, 1, Len(a)) = a
Appender(m, p) == {w \in Workers : pc[w] = p /\ MonthOf(job[w]) = m}

\* C11: no step of an append changes a byte of a data file below the size
\* the file had before the step, nor an existing index row; the data file
\* only grows at its end by (a prefix of) the blob of the appending worker,
\* the index only grows by one row at its end, for the appending worker's
\* day, and the header count is only written by the worker that appended.
C11_AppendOnly ==
    [][\A m \in Months :
          /\ IsPrefix(dataFile[m], dataFile'[m])
          /\ IsPrefix(Rows(m), idxFile'[m].rows)
          /\ dataFile'[m] # dataFile[m] =>
                \E w \in Appender(m, "writeData") :
                    IsPrefix(SubSeq(dataFile'[m], Len(dataFile[m]) + 1,
                                    Len(dataFile'[m])),
                             Compress(RawBlob(job[w])))
          /\ idxFile'[m].rows # Rows(m) =>
                \E w \in Appender(m, "writeRow") :
                    idxFile'[m].rows =
                        Append(Rows(m), IndexRow(job[w], offset[w]))
          /\ idxFile'[m].count # idxFile[m].count =>
                Appender(m, "writeCount") # {}
      ]_vars

\* A second day is being appended to a month that already stores a day: its
\* blob and its row are on disk behind the first day's, the count is not yet
\* updated.
C11_Witness ==
    \E m \in Months :
        /\ Len(Rows(m)) = 2
        /\ idxFile[m].count = 1
        /\ Appender(m, "writeCount") # {}

(***************************************************************************)
(* The information-time ring (Core).  Quantities are perfect squares, so   *)
(* that u = side * sqrt(qty) is an integer and every sum is exact; the EW  *)
(* variances are exact rationals <<numerator, denominator>>.               *)
(***************************************************************************)
Sides == {-1, 1}
Qtys == {1, 4}
Prices == {100, 101}
Trades == [Side : Sides, Qty : Qtys, Price : Prices]

Abs(x) == IF x < 0 THEN -x ELSE x
Sqrt(q) == CHOOSE r \in 0..q : r * r = q

\* The variants' FiveDimConfig: Lfast <= Lslow in every configured variant.
Configs ==
    {c \in [RingSize : {RingN}, Lfast : 0..MaxL, Lslow : 0..MaxL,
            VarAlphaB : {<<1, 2>>}] : c.Lfast <= c.Lslow}

NewCore(N, Lfast, Lslow, varAlphaB) ==
    [N |-> N, head |-> 0,
     u |-> [i \in 0..(N - 1) |-> 0],
     side |-> [i \in 0..(N - 1) |-> 0],
     price |-> [i \in 0..(N - 1) |-> 0],
     info |-> [i \in 0..(N - 1) |-> 0],
     startF |-> 0, startS |-> 0, accumBf |-> 0, accumBs |-> 0,
     countF |-> 0, countS |-> 0,
     Lfast |-> Lfast, Lslow |-> Lslow,
     EWVarBf |-> <<0, 1>>, EWVarBs |-> <<0, 1>>, VarAlphaB |-> varAlphaB]

\* infoPrev of a window start: info[(start-1) % N], or 0 at start 0.
InfoPrev(c, start) == IF start > 0 THEN c.info[(start - 1) % c.N] ELSE 0

\* A fast window that is never shrunk.
ShrinkFastNever(c, infoNow) == c

\* 4. Shrink fast window.
RECURSIVE ShrinkFast(_, _)
ShrinkFast(c, infoNow) ==
    IF c.startF < c.head /\ (infoNow - InfoPrev(c, c.startF)) > c.Lfast
    THEN ShrinkFast([c EXCEPT !.accumBf = @ - c.u[c.startF % c.N],
                              !.countF = @ - 1,
                              !.startF = @ + 1], infoNow)
    ELSE c

RECURSIVE ShrinkSlowTight(_, _)
ShrinkSlowTight(c, infoNow) ==
    IF c.startS < c.head /\ (infoNow - InfoPrev(c, c.startS)) > 0
    THEN ShrinkSlowTight([c EXCEPT !.accumBs = @ - c.u[c.startS % c.N],
                                   !.countS = @ - 1,
                                   !.startS = @ + 1], infoNow)
    ELSE c

\* A slow window that advances its start without subtracting the tick.
RECURSIVE ShrinkSlowKeepSum(_, _)
ShrinkSlowKeepSum(c, infoNow) ==
    IF c.startS < c.head /\ (infoNow - InfoPrev(c, c.startS)) > c.Lslow
    THEN ShrinkSlowKeepSum([c EXCEPT !.countS = @ - 1,
                                     !.startS = @ + 1], infoNow)
    ELSE c

\* Shrink slow window.
RECURSIVE ShrinkSlow(_, _)
ShrinkSlow(c, infoNow) ==
    IF c.startS < c.head /\ (infoNow - InfoPrev(c, c.startS)) > c.Lslow
    THEN ShrinkSlow([c EXCEPT !.accumBs = @ - c.u[c.startS % c.N],
                              !.countS = @ - 1,
                              !.startS = @ + 1], infoNow)
    ELSE c

\* 6. EW variance: diff2 when still zero, else (1-alpha)*old + alpha*diff2.
EWUpdate(old, alpha, diff2) ==
    IF old[1] = 0 THEN <<diff2, 1>>
    ELSE <<(alpha[2] - alpha[1]) * old[1] + alpha[1] * diff2 * old[2],
           alpha[2] * old[2]>>

WindowSnap(c, start, count, b, priceLast) ==
    [Start |-> start % c.N, Count |-> count, B |-> b,
     PriceFirst |-> c.price[start % c.N], PriceLast |-> priceLast]

\* Steps 1-4 of Update: information unit, ring slot, accumulators, shrinking.
Ingest(c, tr) ==
    LET slot == c.head % c.N
        u == tr.Side * Sqrt(tr.Qty)
        prevInfo == IF c.head > 0 THEN c.info[(c.head - 1) % c.N] ELSE 0
        infoNow == prevInfo + Abs(u)
        c1 == [c EXCEPT !.u[slot] = u, !.side[slot] = tr.Side,
                        !.price[slot] = tr.Price, !.info[slot] = infoNow,
                        !.accumBf = @ + u, !.accumBs = @ + u,
                        !.countF = @ + 1, !.countS = @ + 1]
    IN ShrinkSlow(ShrinkFast(c1, infoNow), infoNow)

\* Steps 5-6 of Update: the snapshots, head++, the EW variances.
Finish(c, fast, slow) ==
    [c EXCEPT !.head = @ + 1,
              !.EWVarBf = IF fast.Count > 0
                             THEN EWUpdate(@, c.VarAlphaB, fast.B * fast.B)
                             ELSE @,
              !.EWVarBs = IF slow.Count > 0
                             THEN EWUpdate(@, c.VarAlphaB, slow.B * slow.B)
                             ELSE @]

InitRing ==
    /\ cfg \in Configs
    /\ core = NewCore(cfg.RingSize, cfg.Lfast, cfg.Lslow, cfg.VarAlphaB)
    /\ snaps = [Fast |-> WindowSnap(core, 0, 0, 0, 0),
                Slow |-> WindowSnap(core, 0, 0, 0, 0)]
    /\ fed = <<>>
    /\ peak = 0

\* func (c *Core) Update(tr Trade) SnapPair
\* fed and peak are history variables: the information unit u of every tick
\* passed to Update so far, and the largest number of ticks the slow window
\* has spanned at step 3, after c.countS++ and before the shrink loops.
Update ==
    /\ core.head < MaxTicks
    /\ \E tr \in Trades :
          LET c2 == Ingest(core, tr)
              fast == WindowSnap(c2, c2.startF, c2.countF, c2.accumBf, tr.Price)
              slow == WindowSnap(c2, c2.startS, c2.countS, c2.accumBs, tr.Price)
          IN /\ core' = Finish(c2, fast, slow)
             /\ snaps' = [Fast |-> fast, Slow |-> slow]
             /\ fed' = Append(fed, tr.Side * Sqrt(tr.Qty))
             /\ peak' = IF core.countS + 1 > peak THEN core.countS + 1
                                                  ELSE peak
    /\ UNCHANGED <<cfg, nonRingVars>>

NextRing == Update
InitSpecRing ==
    InitRing /\ IdleData /\ IdleAlign /\ IdleStudy /\ IdleBuild
    /\ IdleSanity /\ IdleKernel
SpecRing == InitSpecRing /\ [][NextRing]_vars

\* C4: after any tick fed to the ring, with Lfast <= Lslow, the fast window
\* holds no more ticks than the slow window and starts no earlier, the start
\* cursors being the absolute counters startF and startS.
C4_FastInsideSlow ==
    core.head > 0 =>
        /\ core.countF <= core.countS
        /\ core.startF >= core.startS
        /\ snaps.Fast.Count <= snaps.Slow.Count

\* The ring has wrapped, both windows have been shrunk and the fast window
\* is strictly inside the slow one.
C4_Witness ==
    /\ core.head > core.N
    /\ cfg.Lfast < cfg.Lslow
    /\ core.startS > 0
    /\ core.startF > core.startS
    /\ core.countF < core.countS

\* Exact sums over absolute tick positions a..b of the history (position i is
\* fed[i + 1]): of |u_i|, the information consumed, and of u_i.
RECURSIVE InfoSum(_, _)
InfoSum(a, b) == IF a > b THEN 0 ELSE Abs(fed[b + 1]) + InfoSum(a, b - 1)

RECURSIVE USum(_, _)
USum(a, b) == IF a > b THEN 0 ELSE fed[b + 1] + USum(a, b - 1)

\* Position of the last tick fed.
LastPos == core.head - 1

\* The window starting at start stays within the budget L and is maximal.
WithinBudget(start, L) ==
    /\ InfoSum(start, LastPos) <= L
    /\ start > 0 => InfoSum(start - 1, LastPos) > L

\* As WithinBudget, but a window reduced to the last tick alone may exceed
\* the budget: the shrink loop stops at start = head.
WithinBudgetOrSingle(start, L) ==
    /\ start < LastPos => InfoSum(start, LastPos) <= L
    /\ start > 0 => InfoSum(start - 1, LastPos) > L

\* The slow window never spanned the whole ring at step 3, so every slot
\* the shrink loops read still held the tick of the position they meant.
NeverOversubscribed == peak < core.N

FlaggedOversubscribed == "oversubscribed" \in DOMAIN core

\* C21: once a window has spanned N or more ticks, both start cursors still
\* index a slot of the ring, snapshots are still produced for every tick, and
\* the day is flagged as oversubscribed.
C21_OversubscribedDayFlagged ==
    (core.head > 0 /\ peak >= core.N) =>
        /\ (core.startF % core.N) \in DOMAIN core.u
        /\ (core.startS % core.N) \in DOMAIN core.u
        /\ snaps.Fast.Count > 0 /\ snaps.Slow.Count > 0
        /\ FlaggedOversubscribed

(***************************************************************************)
(* The evaluator's alignment sweep (AlignVectors).  Times are in           *)
(* milliseconds and non-decreasing in file order; a return is the exact    *)
(* rational <<pEnd - pStart, pStart>>.  Indices are 0-based as in the      *)
(* source: entry i of a vector v is v[i + 1].                              *)
(***************************************************************************)
TimeHorizonsSec == <<10, 30, 60, 180, 300>>
Signals == {0, 1}
PriceLevels == {0, 100, 110}
TimeGrid == {0} \cup {1000 * TimeHorizonsSec[k] : k \in 1..MaxT}

NonDecreasing(t) == \A k \in 1..(Len(t) - 1) : t[k] <= t[k + 1]

RECURSIVE ScanInclusive(_, _, _)
ScanInclusive(times, j, tTarget) ==
    IF j < Len(times) /\ times[j + 1] <= tTarget
    THEN ScanInclusive(times, j + 1, tTarget)
    ELSE j

\* for j < n && times[j] < tTarget { j++ }
RECURSIVE Scan(_, _, _)
Scan(times, j, tTarget) ==
    IF j < Len(times) /\ times[j + 1] < tTarget
    THEN Scan(times, j + 1, tTarget)
    ELSE j

InitAlign ==
    \E n \in 1..MaxN :
        \E sg \in [1..n -> Signals], pr \in [1..n -> PriceLevels],
           tm \in {t \in [1..n -> TimeGrid] : NonDecreasing(t)},
           h \in 1..Len(TimeHorizonsSec) :
            al = [sig |-> sg, prices |-> pr, times |-> tm,
                  hMs |-> 1000 * TimeHorizonsSec[h],
                  i |-> 0, j |-> 0, out |-> <<>>, done |-> FALSE]

\* One iteration of the outer loop `for i := 0; i < n; i++`; the consumer of
\* the sequence takes every yielded pair.
AlignStep ==
    /\ ~al.done
    /\ LET n == Len(al.sig)
           i == al.i
           s == al.sig[i + 1]
           pStart == al.prices[i + 1]
           tTarget == al.times[i + 1] + al.hMs
           j1 == IF al.j < i + 1 THEN i + 1 ELSE al.j
           j2 == Scan(al.times, j1, tTarget)
           pEnd == al.prices[j2 + 1]
       IN IF i >= n
             THEN al' = [al EXCEPT !.done = TRUE]
          ELSE IF s = 0 \/ pStart <= 0
             THEN al' = [al EXCEPT !.i = i + 1]
          ELSE IF j2 >= n
             THEN al' = [al EXCEPT !.j = j2, !.done = TRUE]
          ELSE IF pEnd > 0
             THEN al' = [al EXCEPT !.j = j2, !.i = i + 1,
                                   !.out = Append(@, [i |-> i, j |-> j2, s |-> s,
                                                      r |-> <<pEnd - pStart, pStart>>])]
          ELSE al' = [al EXCEPT !.j = j2, !.i = i + 1]
    /\ UNCHANGED nonAlignVars

NextAlign == AlignStep
InitSpecAlign ==
    InitAlign /\ IdleData /\ IdleRing /\ IdleStudy /\ IdleBuild
    /\ IdleSanity /\ IdleKernel
SpecAlign == InitSpecAlign /\ [][NextAlign]_vars

\* The sweep called with hMs = 0.
InitAlignZero ==
    \E n \in 1..MaxN :
        \E sg \in [1..n -> Signals], pr \in [1..n -> PriceLevels],
           tm \in {t \in [1..n -> TimeGrid] : NonDecreasing(t)} :
            al = [sig |-> sg, prices |-> pr, times |-> tm, hMs |-> 0,
                  i |-> 0, j |-> 0, out |-> <<>>, done |-> FALSE]
InitSpecAlignZero ==
    InitAlignZero /\ IdleData /\ IdleRing /\ IdleStudy /\ IdleBuild
    /\ IdleSanity /\ IdleKernel
SpecAlignZero == InitSpecAlignZero /\ [][NextAlign]_vars

\* The indices of the day whose time is at least the time of entry i plus
\* the horizon.
Reaching(i) ==
    {k \in 0..(Len(al.times) - 1) : al.times[k + 1] >= al.times[i + 1] + al.hMs}
IsSmallestReaching(i, j) ==
    j \in Reaching(i) /\ \A k \in Reaching(i) : j <= k

\* C5: for every configured horizon, the return paired with the signal of
\* entry i is (p_j - p_i) / p_i where j is the smallest index of the day
\* with time[j] >= time[i] + h; and once the sweep is over, every entry
\* with a non-zero signal, a positive price and such a j of positive price
\* has been paired.
C5_ForwardReturnAtFirstReach ==
    /\ \A k \in 1..Len(al.out) :
          LET o == al.out[k] IN
             /\ IsSmallestReaching(o.i, o.j)
             /\ o.s = al.sig[o.i + 1]
             /\ o.r = <<al.prices[o.j + 1] - al.prices[o.i + 1], al.prices[o.i + 1]>>
    /\ al.done =>
          {al.out[k].i : k \in 1..Len(al.out)} =
              {i \in 0..(Len(al.sig) - 1) :
                  /\ al.sig[i + 1] # 0
                  /\ al.prices[i + 1] > 0
                  /\ \E j \in Reaching(i) :
                        IsSmallestReaching(i, j) /\ al.prices[j + 1] > 0}

\* Two entries were paired; for one the target lies beyond the next entry,
\* and the later one reused the cursor left by the earlier one.
C5_Witness ==
    /\ al.done
    /\ Len(al.out) >= 2
    /\ al.out[1].j > al.out[1].i + 1
    /\ al.out[2].j = al.out[1].j
    /\ al.out[1].r[1] > 0

(***************************************************************************)
(* The study (studySymbol): day discovery, the worker pool, the bounded    *)
(* results channel and the aggregation loop of the main goroutine.         *)
(* Strings are sequences of one-character strings.  Signals and returns    *)
(* are integers, so every moment is exact; a daily IC num / sqrt(den) is   *)
(* kept as the pair <<num, den>>.                                          *)
(***************************************************************************)
OOSDateStr == <<"2", "0", "2", "4", "-", "0", "1", "-", "0", "1">>
Digits == <<"0", "1", "2", "3", "4", "5", "6", "7", "8", "9">>
BinSuffix == <<".", "b", "i", "n">>
Variants == {"5D_Adaptive_Base"}
Horizons == 1..Len(TimeHorizonsSec)

IsDigit(c) == \E k \in 1..Len(Digits) : Digits[k] = c
DigitVal(c) == (CHOOSE k \in 1..Len(Digits) : Digits[k] = c) - 1

RECURSIVE AtoiFrom(_, _, _)
AtoiFrom(str, i, n) ==
    IF i > Len(str) THEN n
    ELSE AtoiFrom(str, i + 1,
                  IF IsDigit(str[i]) THEN n * 10 + DigitVal(str[i]) ELSE n)
\* Digits accumulate, every other byte is skipped.
fastAtoi(str) == AtoiFrom(str, 1, 0)

parseOOSBoundary(d) ==
    fastAtoi(SubSeq(d, 1, 4)) * 10000 + fastAtoi(SubSeq(d, 6, 7)) * 100
        + fastAtoi(SubSeq(d, 9, 10))
oosBoundaryYMD == parseOOSBoundary(OOSDateStr)

\* fmt.Sprintf("%0<width>d", n)
RECURSIVE PadNum(_, _)
PadNum(n, width) ==
    IF width = 0 THEN <<>>
    ELSE PadNum(n \div 10, width - 1) \o <<Digits[(n % 10) + 1]>>
\* fmt.Sprintf("%04d%02d%02d", y, m, d)
DateStr(y, m, d) == PadNum(y, 4) \o PadNum(m, 2) \o PadNum(d, 2)
FileName(date) == DateStr(date[1], date[2], date[3]) \o BinSuffix

\* The days whose feature files are on disk, around the boundary date.
StudyCalendar ==
    << <<2023, 12, 31>>, <<2024, 1, 1>>, <<2023, 12, 30>>, <<2024, 1, 2>>,
       <<2023, 1, 1>>, <<2024, 12, 31>> >>
StudyDates == {StudyCalendar[k] : k \in 1..MaxStudyDays}
\* What a day's files hold: nothing loadable, or aligned pairs.
DayKinds == {"unreadable", "flat", "rich"}

HasSuffix(str, suf) ==
    /\ Len(str) >= Len(suf)
    /\ SubSeq(str, Len(str) - Len(suf) + 1, Len(str)) = suf
TrimSuffix(str, suf) ==
    IF HasSuffix(str, suf) THEN SubSeq(str, 1, Len(str) - Len(suf)) ELSE str

RECURSIVE SortInts(_)
SortInts(S) ==
    IF S = {} THEN <<>>
    ELSE LET lo == CHOOSE x \in S : \A y \in S : x <= y
         IN <<lo>> \o SortInts(S \ {lo})

discoverStudyDays(files) ==
    SortInts({fastAtoi(TrimSuffix(f, BinSuffix)) :
                 f \in {g \in DOMAIN files : HasSuffix(g, BinSuffix)}} \ {0})

ZeroMoments ==
    [Count |-> 0, SumSig |-> 0, SumRet |-> 0, SumSqSig |-> 0, SumSqRet |-> 0,
     SumProd |-> 0, SumPnL |-> 0, SumSqPnL |-> 0, ValidHits |-> 0, Hits |-> 0,
     Turnover |-> 0, SumProdLag |-> 0, SumSqSigLag |-> 0]

RECURSIVE CalcFrom(_, _, _, _, _)
CalcFrom(m, prevSig, i, sigs, rets) ==
    IF i > Len(sigs) THEN m
    ELSE LET sg == sigs[i]
             r == rets[i]
             pnl == sg * r
             valid == sg # 0 /\ r # 0
             hit == valid /\ ((sg > 0 /\ r > 0) \/ (sg < 0 /\ r < 0))
             m1 == [m EXCEPT !.Count = @ + 1, !.SumSig = @ + sg,
                             !.SumRet = @ + r, !.SumSqSig = @ + sg * sg,
                             !.SumSqRet = @ + r * r, !.SumProd = @ + sg * r,
                             !.SumPnL = @ + pnl, !.SumSqPnL = @ + pnl * pnl,
                             !.ValidHits = @ + (IF valid THEN 1 ELSE 0),
                             !.Hits = @ + (IF hit THEN 1 ELSE 0)]
             m2 == IF i > 1
                      THEN [m1 EXCEPT !.Turnover = @ + Abs(sg - prevSig),
                                      !.SumProdLag = @ + sg * prevSig,
                                      !.SumSqSigLag = @ + prevSig * prevSig]
                      ELSE m1
         IN CalcFrom(m2, sg, i + 1, sigs, rets)
CalcMomentsVectors(sigs, rets) == CalcFrom(ZeroMoments, 0, 1, sigs, rets)

\* Moments are additive over days: field-wise sum.
MomentsAdd(a, b) == [f \in DOMAIN a |-> a[f] + b[f]]

\* Pairs sorted by signal, cut into numBuckets equal-count buckets; a bucket
\* is its count and the sum of its returns.
RECURSIVE InsertPair(_, _)
InsertPair(x, sorted) ==
    IF sorted = <<>> THEN <<x>>
    ELSE IF x[1] < Head(sorted)[1] THEN <<x>> \o sorted
    ELSE <<Head(sorted)>> \o InsertPair(x, Tail(sorted))
RECURSIVE SortPairs(_)
SortPairs(pairs) ==
    IF pairs = <<>> THEN <<>> ELSE InsertPair(Head(pairs), SortPairs(Tail(pairs)))
RECURSIVE SumRets(_, _, _)
SumRets(pairs, from, to) ==
    IF from > to THEN 0 ELSE pairs[from][2] + SumRets(pairs, from + 1, to)
ComputeQuantiles(sigs, rets, numBuckets) ==
    LET n == Len(sigs)
        sorted == SortPairs([k \in 1..n |-> <<sigs[k], rets[k]>>])
    IN [b \in 1..numBuckets |->
           LET lo == ((b - 1) * n) \div numBuckets
               hi == (b * n) \div numBuckets
           IN [Count |-> hi - lo, SumRet |-> SumRets(sorted, lo + 1, hi)]]
ZeroBuckets == [b \in 1..NumBuckets |-> [Count |-> 0, SumRet |-> 0]]
BucketAdd(agg, bucket) ==
    [Count |-> agg.Count + bucket.Count, SumRet |-> agg.SumRet + bucket.SumRet]

\* The aligned (signal, return) vectors of a day at a horizon.
DaySigs(kind, hIdx) ==
    IF kind = "flat" /\ hIdx = 1 THEN <<1>>
    ELSE IF kind = "rich" /\ hIdx <= 2 THEN <<1, -1, 2>>
    ELSE <<>>
DayRets(kind, hIdx) ==
    IF kind = "flat" /\ hIdx = 1 THEN <<5>>
    ELSE IF kind = "rich" /\ hIdx <= 2 THEN <<2, -1, 3>>
    ELSE <<>>

EmptyMap == [x \in {} |-> 0]
Put(f, k, v) == [x \in DOMAIN f \cup {k} |-> IF x = k THEN v ELSE f[x]]

\* processStudyDay: the file name is rebuilt from dayInt; a day that does
\* not load, or whose feature file has an unexpected size, has no metrics.
processStudyDay(dayInt, files) ==
    LET name == DateStr(dayInt \div 10000, (dayInt % 10000) \div 100,
                        dayInt % 100) \o BinSuffix
        kind == IF name \in DOMAIN files THEN files[name] ELSE "unreadable"
        had == {h \in Horizons : Len(DaySigs(kind, h)) > 0}
    IN IF kind = "unreadable"
          THEN [YMD |-> dayInt, Metrics |-> EmptyMap, Quantiles |-> EmptyMap]
          ELSE [YMD |-> dayInt,
                Metrics |-> [v \in Variants |->
                    [h \in Horizons |->
                        IF h \in had
                           THEN CalcMomentsVectors(DaySigs(kind, h), DayRets(kind, h))
                           ELSE ZeroMoments]],
                Quantiles |-> [v \in Variants |->
                    [h \in had |->
                        ComputeQuantiles(DaySigs(kind, h), DayRets(kind, h),
                                         NumBuckets)]]]

NoResult == [YMD |-> 0, Metrics |-> EmptyMap, Quantiles |-> EmptyMap]

InitStudy ==
    /\ dayFiles \in [{FileName(d) : d \in StudyDates} -> DayKinds]
    /\ tasks = discoverStudyDays(dayFiles)
    /\ sPending = [k \in 1..Len(tasks) |-> k]
    /\ jobsChan = <<>>
    /\ jobsChanClosed = FALSE
    /\ sPc = [w \in Workers |-> "idle"]
    /\ sRes = [w \in Workers |-> NoResult]
    /\ resultsChan = <<>>
    /\ resultsChanClosed = FALSE
    /\ mainPc = "dispatch"
    /\ acc = [isAcc |-> EmptyMap, oosAcc |-> EmptyMap,
              isDailyIC |-> EmptyMap, oosDailyIC |-> EmptyMap,
              isBuckets |-> EmptyMap, oosBuckets |-> EmptyMap,
              isDays |-> 0, oosDays |-> 0, isSeen |-> {}, oosSeen |-> {}]

IsOOSStrict(ymd) == ymd > oosBoundaryYMD

\* isOOS := res.YMD >= oosBoundaryYMD
IsOOS(ymd) == ymd >= oosBoundaryYMD

\* "Init Structures if needed" for a variant name seen for the first time.
InitVariant(a, v) ==
    IF v \in DOMAIN a.isAcc THEN a
    ELSE [a EXCEPT
            !.isAcc = Put(@, v, [h \in Horizons |-> ZeroMoments]),
            !.oosAcc = Put(@, v, [h \in Horizons |-> ZeroMoments]),
            !.isDailyIC = Put(@, v, [h \in Horizons |-> <<>>]),
            !.oosDailyIC = Put(@, v, [h \in Horizons |-> <<>>]),
            !.isBuckets = Put(@, v, [h \in Horizons |-> <<>>]),
            !.oosBuckets = Put(@, v, [h \in Horizons |-> <<>>])]

DailyIC(m) ==
    LET num == m.Count * m.SumProd - m.SumSig * m.SumRet
        denX == m.Count * m.SumSqSig - m.SumSig * m.SumSig
        denY == m.Count * m.SumSqRet - m.SumRet * m.SumRet
        den == denX * denY
    IN IF den > 0 THEN <<num, den>> ELSE <<0, 1>>

AddBuckets(tb, qList) ==
    LET base == IF Len(tb) = 0 THEN ZeroBuckets ELSE tb
    IN [b \in 1..NumBuckets |->
           IF b <= Len(qList) THEN BucketAdd(base[b], qList[b]) ELSE base[b]]

\* The loop body with `=` in place of the accumulation.
AggHorizonOverwrite(a, v, h, res, isOOS) ==
    LET m == res.Metrics[v][h]
        hasQ == h \in DOMAIN res.Quantiles[v]
    IN IF m.Count <= 0 THEN a
       ELSE IF isOOS
          THEN [a EXCEPT
                  !.oosAcc[v][h] = m,
                  !.oosDailyIC[v][h] = Append(@, DailyIC(m)),
                  !.oosBuckets[v][h] =
                      IF hasQ THEN AddBuckets(@, res.Quantiles[v][h]) ELSE @]
          ELSE [a EXCEPT
                  !.isAcc[v][h] = m,
                  !.isDailyIC[v][h] = Append(@, DailyIC(m)),
                  !.isBuckets[v][h] =
                      IF hasQ THEN AddBuckets(@, res.Quantiles[v][h]) ELSE @]

\* The body of `for hIdx := range TimeHorizonsSec` for one horizon.
AggHorizon(a, v, h, res, isOOS) ==
    LET m == res.Metrics[v][h]
        hasQ == h \in DOMAIN res.Quantiles[v]
    IN IF m.Count <= 0 THEN a
       ELSE IF isOOS
          THEN [a EXCEPT
                  !.oosAcc[v][h] = MomentsAdd(@, m),
                  !.oosDailyIC[v][h] = Append(@, DailyIC(m)),
                  !.oosBuckets[v][h] =
                      IF hasQ THEN AddBuckets(@, res.Quantiles[v][h]) ELSE @]
          ELSE [a EXCEPT
                  !.isAcc[v][h] = MomentsAdd(@, m),
                  !.isDailyIC[v][h] = Append(@, DailyIC(m)),
                  !.isBuckets[v][h] =
                      IF hasQ THEN AddBuckets(@, res.Quantiles[v][h]) ELSE @]

RECURSIVE AggHorizons(_, _, _, _, _)
AggHorizons(a, v, h, res, isOOS) ==
    IF h > Len(TimeHorizonsSec) THEN a
    ELSE AggHorizons(AggHorizon(a, v, h, res, isOOS), v, h + 1, res, isOOS)

RECURSIVE AggVariants(_, _, _, _)
AggVariants(a, vs, res, isOOS) ==
    IF vs = {} THEN a
    ELSE LET v == CHOOSE x \in vs : TRUE
         IN AggVariants(AggHorizons(InitVariant(a, v), v, 1, res, isOOS),
                        vs \ {v}, res, isOOS)

\* One iteration of `for res := range resultsChan` on a non-empty result.
Aggregate(a, res) ==
    LET isOOS == IsOOS(res.YMD)
        a1 == IF isOOS
                 THEN [a EXCEPT !.oosDays = @ + 1, !.oosSeen = @ \cup {res.YMD}]
                 ELSE [a EXCEPT !.isDays = @ + 1, !.isSeen = @ \cup {res.YMD}]
    IN AggVariants(a1, DOMAIN res.Metrics, res, isOOS)

\* jobsChan <- i (capacity len(tasks)).
StudyDispatch ==
    /\ mainPc = "dispatch"
    /\ sPending # <<>>
    /\ jobsChan' = Append(jobsChan, Head(sPending))
    /\ sPending' = Tail(sPending)
    /\ UNCHANGED <<dayFiles, tasks, jobsChanClosed, sPc, sRes, resultsChan,
                   resultsChanClosed, mainPc, acc, nonStudyVars>>

\* close(jobsChan); the closer goroutine is started; the main loop begins.
StudyCloseJobs ==
    /\ mainPc = "dispatch"
    /\ sPending = <<>>
    /\ jobsChanClosed' = TRUE
    /\ mainPc' = "loop"
    /\ UNCHANGED <<dayFiles, tasks, sPending, jobsChan, sPc, sRes, resultsChan,
                   resultsChanClosed, acc, nonStudyVars>>

\* A worker receives an index and runs processStudyDay on tasks[idx].
StudyTake(w) ==
    /\ sPc[w] = "idle"
    /\ jobsChan # <<>>
    /\ sRes' = [sRes EXCEPT ![w] = processStudyDay(tasks[Head(jobsChan)], dayFiles)]
    /\ jobsChan' = Tail(jobsChan)
    /\ sPc' = [sPc EXCEPT ![w] = "send"]
    /\ UNCHANGED <<dayFiles, tasks, sPending, jobsChanClosed, resultsChan,
                   resultsChanClosed, mainPc, acc, nonStudyVars>>

\* resultsChan <- res blocks while the channel is full.
StudySend(w) ==
    /\ sPc[w] = "send"
    /\ Len(resultsChan) < ResCap
    /\ resultsChan' = Append(resultsChan, sRes[w])
    /\ sRes' = [sRes EXCEPT ![w] = NoResult]
    /\ sPc' = [sPc EXCEPT ![w] = "idle"]
    /\ UNCHANGED <<dayFiles, tasks, sPending, jobsChan, jobsChanClosed,
                   resultsChanClosed, mainPc, acc, nonStudyVars>>

StudyExit(w) ==
    /\ sPc[w] = "idle"
    /\ jobsChan = <<>>
    /\ jobsChanClosed
    /\ sPc' = [sPc EXCEPT ![w] = "exit"]
    /\ UNCHANGED <<dayFiles, tasks, sPending, jobsChan, jobsChanClosed, sRes,
                   resultsChan, resultsChanClosed, mainPc, acc, nonStudyVars>>

\* A closer that does not wait for the workers.
StudyCloseResultsEarly ==
    /\ mainPc # "dispatch"
    /\ ~resultsChanClosed
    /\ resultsChanClosed' = TRUE
    /\ UNCHANGED <<dayFiles, tasks, sPending, jobsChan, jobsChanClosed, sPc,
                   sRes, resultsChan, mainPc, acc, nonStudyVars>>

\* go func() { wg.Wait(); close(resultsChan) }()
StudyCloseResults ==
    /\ mainPc # "dispatch"
    /\ ~resultsChanClosed
    /\ \A w \in Workers : sPc[w] = "exit"
    /\ resultsChanClosed' = TRUE
    /\ UNCHANGED <<dayFiles, tasks, sPending, jobsChan, jobsChanClosed, sPc,
                   sRes, resultsChan, mainPc, acc, nonStudyVars>>

\* The main loop receives one result; an empty one is skipped.
StudyAggregate ==
    /\ mainPc = "loop"
    /\ resultsChan # <<>>
    /\ resultsChan' = Tail(resultsChan)
    /\ acc' = IF DOMAIN Head(resultsChan).Metrics = {}
                 THEN acc
                 ELSE Aggregate(acc, Head(resultsChan))
    /\ UNCHANGED <<dayFiles, tasks, sPending, jobsChan, jobsChanClosed, sPc,
                   sRes, resultsChanClosed, mainPc, nonStudyVars>>

\* range over the closed and drained channel ends; the tables are printed.
StudyLoopEnd ==
    /\ mainPc = "loop"
    /\ resultsChan = <<>>
    /\ resultsChanClosed
    /\ mainPc' = "done"
    /\ UNCHANGED <<dayFiles, tasks, sPending, jobsChan, jobsChanClosed, sPc,
                   sRes, resultsChan, resultsChanClosed, acc, nonStudyVars>>

NextStudy ==
    \/ StudyDispatch
    \/ StudyCloseJobs
    \/ StudyCloseResults
    \/ StudyAggregate
    \/ StudyLoopEnd
    \/ \E w \in Workers :
          \/ StudyTake(w)
          \/ StudySend(w)
          \/ StudyExit(w)

InitSpecStudy ==
    InitStudy /\ IdleData /\ IdleRing /\ IdleAlign /\ IdleBuild
    /\ IdleSanity /\ IdleKernel
SpecStudy == InitSpecStudy /\ [][NextStudy]_vars

\* The Go scheduler does not stop while some goroutine (the main one, the
\* closer or a worker) can take a step.
FairStudy == WF_vars(NextStudy)
SpecStudyFair == SpecStudy /\ FairStudy

\* A result the main loop aggregates (an empty one is skipped unseen).
NonEmpty(res) == DOMAIN res.Metrics # {}
ResultOf(k) == processStudyDay(tasks[k], dayFiles)
CountJobs(q) == Cardinality({i \in 1..Len(q) : NonEmpty(ResultOf(q[i]))})
\* Non-empty results at each station between the task list and the tables.
NotYetComputed == CountJobs(sPending) + CountJobs(jobsChan)
HeldByWorkers ==
    Cardinality({w \in Workers : sPc[w] = "send" /\ NonEmpty(sRes[w])})
InChannel ==
    Cardinality({i \in 1..Len(resultsChan) : NonEmpty(resultsChan[i])})
Received == acc.isDays + acc.oosDays
AllResults == CountJobs([k \in 1..Len(tasks) |-> k])

\* No result is lost or duplicated on its way, none is received twice, the
\* channel never holds more than its capacity, and it is closed only once
\* every worker has left its loop with nothing left to send.
HandOffSafe ==
    /\ NotYetComputed + HeldByWorkers + InChannel + Received = AllResults
    /\ Received = Cardinality(acc.isSeen \cup acc.oosSeen)
    /\ Len(resultsChan) <= ResCap
    /\ resultsChanClosed =>
          \A w \in Workers : sPc[w] = "exit" /\ sRes[w] = NoResult
    /\ mainPc = "done" => resultsChanClosed /\ resultsChan = <<>>

StudyFinished ==
    /\ mainPc = "done"
    /\ resultsChanClosed
    /\ Received = AllResults

\* C24: every result a worker sends is received by the main loop exactly
\* once, the results channel is closed once, after the last send of every
\* worker, and studySymbol terminates, also with more tasks than the
\* channel has room for.
C24_ResultsHandedOffAndTerminates ==
    /\ []HandOffSafe
    /\ [][resultsChanClosed => resultsChanClosed']_vars
    /\ <>[]StudyFinished

\* More tasks than the channel holds: the channel is full, every worker is
\* blocked in its send with a non-empty result, and the main goroutine is
\* still dispatching.
C24_Witness ==
    /\ Len(tasks) > ResCap + 1
    /\ Len(resultsChan) = ResCap
    /\ mainPc = "dispatch"
    /\ \A w \in Workers : sPc[w] = "send" /\ NonEmpty(sRes[w])

\* The calendar view of a day label, and the calendar order of dates.
LabelOf(date) == date[1] * 10000 + date[2] * 100 + date[3]
DateAtLeast(d, e) ==
    \/ d[1] > e[1]
    \/ d[1] = e[1] /\ d[2] > e[2]
    \/ d[1] = e[1] /\ d[2] = e[2] /\ d[3] >= e[3]
Readable(date) == dayFiles[FileName(date)] # "unreadable"
\* The days of a set that have aligned pairs at horizon h.
WithPairs(days, v, h) ==
    {d \in days : processStudyDay(d, dayFiles).Metrics[v][h].Count > 0}

\* C6: a day's result is aggregated into the OOS accumulators if and only
\* if its date is on or after the boundary date 2024-01-01, and into the IS
\* accumulators otherwise: 2023-12-31 is never in OOS, 2024-01-01 never in
\* IS; the day counters and the daily-IC lists of each side are exactly
\* those of the days of that side, and at the end every readable day is on
\* its side.
C6_SplitAtBoundary ==
    /\ \A date \in StudyDates :
          /\ LabelOf(date) \in acc.oosSeen => DateAtLeast(date, <<2024, 1, 1>>)
          /\ LabelOf(date) \in acc.isSeen => ~DateAtLeast(date, <<2024, 1, 1>>)
    /\ 20231231 \notin acc.oosSeen
    /\ 20240101 \notin acc.isSeen
    /\ acc.isDays = Cardinality(acc.isSeen)
    /\ acc.oosDays = Cardinality(acc.oosSeen)
    /\ \A v \in DOMAIN acc.isAcc : \A h \in Horizons :
          /\ Len(acc.isDailyIC[v][h]) = Cardinality(WithPairs(acc.isSeen, v, h))
          /\ Len(acc.oosDailyIC[v][h]) = Cardinality(WithPairs(acc.oosSeen, v, h))
    /\ mainPc = "done" =>
          acc.isSeen \cup acc.oosSeen =
              {LabelOf(date) : date \in {d \in StudyDates : Readable(d)}}

\* The study is over; 2023-12-31 went to IS and 2024-01-01 went to OOS.
C6_Witness ==
    /\ mainPc = "done"
    /\ 20231231 \in acc.isSeen
    /\ 20240101 \in acc.oosSeen
    /\ \E v \in DOMAIN acc.oosDailyIC : Len(acc.oosDailyIC[v][1]) > 0

\* The per-day results of a partition and their sums, taken over the set of
\* days (no order).
ISDays == {LabelOf(d) : d \in {e \in StudyDates :
                                  Readable(e) /\ ~DateAtLeast(e, <<2024, 1, 1>>)}}
OOSDays == {LabelOf(d) : d \in {e \in StudyDates :
                                   Readable(e) /\ DateAtLeast(e, <<2024, 1, 1>>)}}
DayMoments(d, v, h) == processStudyDay(d, dayFiles).Metrics[v][h]
DayQuantiles(d, v, h) == processStudyDay(d, dayFiles).Quantiles[v][h]
WithQuantiles(days, v, h) ==
    {d \in WithPairs(days, v, h) :
        h \in DOMAIN processStudyDay(d, dayFiles).Quantiles[v]}

RECURSIVE SumMoments(_, _, _)
SumMoments(days, v, h) ==
    IF days = {} THEN ZeroMoments
    ELSE LET d == CHOOSE x \in days : TRUE
         IN MomentsAdd(SumMoments(days \ {d}, v, h), DayMoments(d, v, h))

RECURSIVE SumBuckets(_, _, _, _)
SumBuckets(days, v, h, b) ==
    IF days = {} THEN [Count |-> 0, SumRet |-> 0]
    ELSE LET d == CHOOSE x \in days : TRUE
         IN BucketAdd(SumBuckets(days \ {d}, v, h, b), DayQuantiles(d, v, h)[b])

ExpectedBuckets(days, v, h) ==
    IF WithQuantiles(days, v, h) = {} THEN <<>>
    ELSE [b \in 1..NumBuckets |-> SumBuckets(WithQuantiles(days, v, h), v, h, b)]

\* The multiset of the elements of a sequence, and of the daily ICs of a
\* set of days.
BagOfSeq(q) ==
    [x \in {q[i] : i \in DOMAIN q} |-> Cardinality({i \in DOMAIN q : q[i] = x})]
BagOfICs(days, v, h) ==
    LET ds == WithPairs(days, v, h)
    IN [x \in {DailyIC(DayMoments(d, v, h)) : d \in ds} |->
           Cardinality({d \in ds : DailyIC(DayMoments(d, v, h)) = x})]

\* C15: whatever the order in which the workers deliver the day results,
\* at the end of the study the IS and OOS aggregates are those of the set
\* of days of each partition: the summed moments are the sum of the per-day
\* moments, the bucket aggregates the sum of the per-day buckets, the day
\* counts the sizes of the partitions, and the daily ICs, as a multiset,
\* the ICs of the days.
C15_AggregationOrderAgnostic ==
    mainPc = "done" =>
        /\ acc.isDays = Cardinality(ISDays)
        /\ acc.oosDays = Cardinality(OOSDays)
        /\ \A v \in DOMAIN acc.isAcc : \A h \in Horizons :
              /\ acc.isAcc[v][h] = SumMoments(WithPairs(ISDays, v, h), v, h)
              /\ acc.oosAcc[v][h] = SumMoments(WithPairs(OOSDays, v, h), v, h)
              /\ acc.isBuckets[v][h] = ExpectedBuckets(ISDays, v, h)
              /\ acc.oosBuckets[v][h] = ExpectedBuckets(OOSDays, v, h)
              /\ BagOfSeq(acc.isDailyIC[v][h]) = BagOfICs(ISDays, v, h)
              /\ BagOfSeq(acc.oosDailyIC[v][h]) = BagOfICs(OOSDays, v, h)
        /\ ISDays \cup OOSDays # {} => DOMAIN acc.isAcc = Variants

\* The study is over and the two IS days were aggregated against the order
\* of the task list: the IC of the later day comes first.
C15_Witness ==
    /\ mainPc = "done"
    /\ dayFiles[FileName(<<2023, 12, 30>>)] = "rich"
    /\ dayFiles[FileName(<<2023, 12, 31>>)] = "flat"
    /\ \E v \in DOMAIN acc.isDailyIC :
          acc.isDailyIC[v][1] =
              <<DailyIC(DayMoments(20231231, v, 1)),
                DailyIC(DayMoments(20231230, v, 1))>>

(***************************************************************************)
(* The feature builder (buildVariant / processBuildDay) for one variant of *)
(* one symbol, run repeatedly.  A feature file is its size and the time of *)
(* its last write.                                                         *)
(***************************************************************************)
\* The year and month directories that discoverTasks walks.
BuildYear == 2024
BuildMonth == 1
NoTask == [Y |-> 0, M |-> 0, D |-> 0, Offset |-> 0, Length |-> 0]
NoFile == [exists |-> FALSE, size |-> 0, mtime |-> 0]
OutPath(t) == DateStr(t.Y, t.M, t.D) \o BinSuffix

\* A stored blob, as far as its readers look at it: the magic and the row
\* count of the AGG3 header, the size of the decompressed blob in bytes and
\* the truncated SHA-256 of the decompressed blob (`sum`).  GoodSum is the
\* checksum that every index row of the model stores.
GoodSum == 1
GoodBlob(rc) ==
    [magic |-> AggMagic, size |-> HeaderSize + rc * RowSize, rowCount |-> rc,
     sum |-> GoodSum]
Blobs ==
    {GoodBlob(rc) : rc \in 0..MaxRows} \cup
    {[GoodBlob(1) EXCEPT !.magic = 0],
     [GoodBlob(0) EXCEPT !.size = HeaderSize - 1],
     [GoodBlob(1) EXCEPT !.rowCount = 2],
     [GoodBlob(2) EXCEPT !.rowCount = 1],
     [GoodBlob(1) EXCEPT !.sum = GoodSum + 1]}

\* The month's index and, per row, the blob that the row references.
Stores ==
    {[count |-> MaxBuildDays,
      rows |-> [k \in 1..MaxBuildDays |->
                   [D |-> k, Offset |-> 100 * (k - 1), Length |-> 100,
                    Checksum |-> GoodSum, Blob |-> b[k]]]] :
        b \in [1..MaxBuildDays -> Blobs]}

\* discoverTasks: the first `count` rows with a day in 1..31 and length > 0.
RECURSIVE TasksFrom(_, _)
TasksFrom(ix, i) ==
    IF i > ix.count \/ i > Len(ix.rows) THEN <<>>
    ELSE (IF ix.rows[i].D >= 1 /\ ix.rows[i].D <= 31 /\ ix.rows[i].Length > 0
             THEN <<[Y |-> BuildYear, M |-> BuildMonth, D |-> ix.rows[i].D,
                     Offset |-> ix.rows[i].Offset, Length |-> ix.rows[i].Length]>>
             ELSE <<>>) \o TasksFrom(ix, i + 1)
\* The row loop started one row late.
discoverTasksFromSecond(ix) == TasksFrom(ix, 2)

discoverTasks(ix) == TasksFrom(ix, 1)

\* loadRawBlob on a blob that is read and decompressed without error: the
\* only test is len(raw) < HeaderSize; the result is raw[HeaderSize:] (its
\* length is kept) and the row count of the header.
loadRawBlob(ix, t) ==
    LET k == CHOOSE i \in 1..Len(ix.rows) : ix.rows[i].Offset = t.Offset
        b == ix.rows[k].Blob
    IN IF b.size < HeaderSize
          THEN [ok |-> FALSE, rowCount |-> 0, rawLen |-> 0]
          ELSE [ok |-> TRUE, rowCount |-> b.rowCount, rawLen |-> b.size - HeaderSize]

\* A worker panicked: the Go runtime ends the whole process.
Crashed == \E w \in Workers : bPc[w] = "panic"

InitBuild ==
    /\ store \in Stores
    /\ featFile = [f \in {OutPath(t) : t \in {discoverTasks(store)[k] :
                                   k \in 1..Len(discoverTasks(store))}} |-> NoFile]
    /\ clock = 0
    /\ runs = 0
    /\ bJobs = <<>>
    /\ bPc = [w \in Workers |-> "idle"]
    /\ bTask = [w \in Workers |-> NoTask]
    /\ skipped = {}

\* buildVariant: the tasks are queued, the channel is closed, the workers
\* run; it returns after wg.Wait(), so runs do not overlap.
BuildStart ==
    /\ ~Crashed
    /\ runs < MaxRuns
    /\ bJobs = <<>>
    /\ \A w \in Workers : bPc[w] = "idle"
    /\ runs' = runs + 1
    /\ bJobs' = discoverTasks(store)
    /\ UNCHANGED <<store, featFile, clock, bPc, bTask, skipped, nonBuildVars>>

BuildTake(w) ==
    /\ ~Crashed
    /\ bPc[w] = "idle"
    /\ bJobs # <<>>
    /\ bTask' = [bTask EXCEPT ![w] = Head(bJobs)]
    /\ bJobs' = Tail(bJobs)
    /\ bPc' = [bPc EXCEPT ![w] = "stat"]
    /\ UNCHANGED <<store, featFile, clock, runs, skipped, nonBuildVars>>

BuildStatBlind(w) ==
    /\ ~Crashed
    /\ bPc[w] = "stat"
    /\ bPc' = [bPc EXCEPT ![w] = "load"]
    /\ UNCHANGED <<store, featFile, clock, runs, bJobs, bTask, skipped,
                   nonBuildVars>>

\* if _, err := os.Stat(outPath); err == nil { return }
BuildStat(w) ==
    /\ ~Crashed
    /\ bPc[w] = "stat"
    /\ IF featFile[OutPath(bTask[w])].exists
          THEN /\ bPc' = [bPc EXCEPT ![w] = "idle"]
               /\ bTask' = [bTask EXCEPT ![w] = NoTask]
               /\ skipped' = skipped \cup {OutPath(bTask[w])}
          ELSE /\ bPc' = [bPc EXCEPT ![w] = "load"]
               /\ UNCHANGED <<bTask, skipped>>
    /\ UNCHANGED <<store, featFile, clock, runs, bJobs, nonBuildVars>>

\* The row loop reads rawBytes[i*RowSize : (i+1)*RowSize] for i < rowCount.
RowsOverrun(r) == r.rowCount * RowSize > r.rawLen

\* loadRawBlob returns; `!ok || rowCount == 0` returns, otherwise the ring is
\* run over the rows and the buffer is filled.  When the header's row count
\* exceeds the rows present, this is the outcome in which every slice
\* expression stays within the capacity of the slice that io.ReadAll
\* returned (the bytes past its length are read as rows).
BuildLoad(w) ==
    /\ ~Crashed
    /\ bPc[w] = "load"
    /\ IF ~loadRawBlob(store, bTask[w]).ok
          \/ loadRawBlob(store, bTask[w]).rowCount = 0
          THEN /\ bPc' = [bPc EXCEPT ![w] = "idle"]
               /\ bTask' = [bTask EXCEPT ![w] = NoTask]
          ELSE /\ bPc' = [bPc EXCEPT ![w] = "write"]
               /\ bTask' = bTask
    /\ UNCHANGED <<store, featFile, clock, runs, bJobs, skipped, nonBuildVars>>

\* The other outcome of a row count that exceeds the rows present: a slice
\* expression runs past the capacity and the worker panics.
BuildPanic(w) ==
    /\ ~Crashed
    /\ bPc[w] = "load"
    /\ loadRawBlob(store, bTask[w]).ok
    /\ RowsOverrun(loadRawBlob(store, bTask[w]))
    /\ bPc' = [bPc EXCEPT ![w] = "panic"]
    /\ UNCHANGED <<store, featFile, clock, runs, bJobs, bTask, skipped,
                   nonBuildVars>>

\* loadRawBlob fails (open, seek, read or zlib error): return.
BuildLoadFail(w) ==
    /\ ~Crashed
    /\ bPc[w] = "load"
    /\ bPc' = [bPc EXCEPT ![w] = "idle"]
    /\ bTask' = [bTask EXCEPT ![w] = NoTask]
    /\ UNCHANGED <<store, featFile, clock, runs, bJobs, skipped, nonBuildVars>>

\* os.WriteFile(outPath, binBuf) succeeds.
BuildWrite(w) ==
    /\ ~Crashed
    /\ bPc[w] = "write"
    /\ featFile' = [featFile EXCEPT ![OutPath(bTask[w])] =
                       [exists |-> TRUE,
                        size |-> loadRawBlob(store, bTask[w]).rowCount * FeatRowBytes,
                        mtime |-> clock + 1]]
    /\ clock' = clock + 1
    /\ bPc' = [bPc EXCEPT ![w] = "idle"]
    /\ bTask' = [bTask EXCEPT ![w] = NoTask]
    /\ UNCHANGED <<store, runs, bJobs, skipped, nonBuildVars>>

\* os.WriteFile fails: the error is printed; the file was not created, or
\* it was created and holds a proper prefix of the buffer.
BuildWriteFail(w) ==
    /\ ~Crashed
    /\ bPc[w] = "write"
    /\ \/ UNCHANGED <<featFile, clock>>
       \/ /\ \E k \in {0, FeatRowBytes \div 2} :
                featFile' = [featFile EXCEPT ![OutPath(bTask[w])] =
                                [exists |-> TRUE, size |-> k, mtime |-> clock + 1]]
          /\ clock' = clock + 1
    /\ bPc' = [bPc EXCEPT ![w] = "idle"]
    /\ bTask' = [bTask EXCEPT ![w] = NoTask]
    /\ UNCHANGED <<store, runs, bJobs, skipped, nonBuildVars>>

NextBuild ==
    \/ BuildStart
    \/ \E w \in Workers :
          \/ BuildTake(w)
          \/ BuildStat(w)
          \/ BuildLoad(w)
          \/ BuildPanic(w)
          \/ BuildLoadFail(w)
          \/ BuildWrite(w)
          \/ BuildWriteFail(w)

InitSpecBuild ==
    InitBuild /\ IdleData /\ IdleRing /\ IdleAlign /\ IdleStudy
    /\ IdleSanity /\ IdleKernel
SpecBuild == InitSpecBuild /\ [][NextBuild]_vars

\* C7: building a day whose feature file already exists is a no-op: no step
\* of any run rewrites or modifies an existing feature file (its size and
\* modification time stay as they are).
C7_ExistingFileUntouched ==
    [][\A f \in DOMAIN featFile :
          featFile[f].exists => featFile'[f] = featFile[f]]_vars

\* A later run met the file that an earlier run had written in full, and
\* skipped it.
C7_Witness ==
    /\ runs >= 2
    /\ \E f \in skipped :
          /\ featFile[f].exists
          /\ featFile[f].size >= FeatRowBytes

\* The codec checks of a stored day: AGG3 magic, complete header, size of the
\* decompressed blob = HeaderSize + rowCount * RowSize, checksum of the index
\* row = checksum of the decompressed blob.
CodecOK(r) ==
    /\ r.Blob.magic = AggMagic
    /\ r.Blob.size >= HeaderSize
    /\ r.Blob.size = HeaderSize + r.Blob.rowCount * RowSize
    /\ r.Blob.sum = r.Checksum
RowPath(r) == DateStr(BuildYear, BuildMonth, r.D) \o BinSuffix
StoreRows == {store.rows[k] : k \in 1..Len(store.rows)}

\* C12: a stored day that fails a codec check (bad magic, truncated header,
\* size mismatch or checksum mismatch) is skipped: no worker panics and no
\* feature file is produced for that day.
C12_BadDaySkipped ==
    /\ ~Crashed
    /\ \A r \in StoreRows : ~CodecOK(r) => ~featFile[RowPath(r)].exists

(***************************************************************************)
(* The sanity command: validateMonth over one month directory.  An index   *)
(* row is what validateMonth reads of it: its length field, whether the    *)
(* slice [offset, offset+length) can be read from the data file, whether   *)
(* the slice inflates, its checksum field and the decompressed blob.       *)
(***************************************************************************)
SanRow(b) ==
    [Length |-> 100, Readable |-> TRUE, Inflates |-> TRUE,
     Checksum |-> GoodSum, Blob |-> b]
SanRows ==
    {SanRow(b) : b \in Blobs} \cup
    {[SanRow(GoodBlob(1)) EXCEPT !.Length = 0],
     [SanRow(GoodBlob(1)) EXCEPT !.Readable = FALSE],
     [SanRow(GoodBlob(1)) EXCEPT !.Inflates = FALSE]}

RECURSIVE SeqsUpTo(_, _)
SeqsUpTo(S, n) ==
    IF n = 0 THEN {<<>>}
    ELSE SeqsUpTo(S, n - 1) \cup
         {Append(q, x) : q \in {p \in SeqsUpTo(S, n - 1) : Len(p) = n - 1}, x \in S}

\* A month directory: the two files, the 16-byte header (complete or not,
\* QIDX magic or not, count) and the 26-byte rows that follow it.
MonthDirs ==
    {[hasIdx |-> TRUE, hasData |-> TRUE, hdrFull |-> TRUE, magicOK |-> TRUE,
      count |-> c, rows |-> rs] :
        c \in 0..(MaxSanRows + 1), rs \in SeqsUpTo(SanRows, MaxSanRows)} \cup
    {[hasIdx |-> i, hasData |-> d, hdrFull |-> f, magicOK |-> m,
      count |-> 1, rows |-> <<SanRow(GoodBlob(1))>>] :
        i, d, f, m \in BOOLEAN}

\* The checks of one loop iteration without the test of the AGG3 magic.
RowIssueNoMagic(r) ==
    \/ r.Length <= 0
    \/ ~r.Readable
    \/ ~r.Inflates
    \/ r.Blob.sum # r.Checksum
    \/ r.Blob.size < HeaderSize
    \/ HeaderSize + r.Blob.rowCount * RowSize # r.Blob.size

\* The checks of one loop iteration, in the order of the code; each failing
\* check is `issues++; continue`.
RowIssue(r) ==
    \/ r.Length <= 0
    \/ ~r.Readable
    \/ ~r.Inflates
    \/ r.Blob.sum # r.Checksum
    \/ r.Blob.size < HeaderSize
    \/ r.Blob.magic # AggMagic
    \/ HeaderSize + r.Blob.rowCount * RowSize # r.Blob.size

InitSanity ==
    \E d \in MonthDirs :
        san = [dir |-> d, pc |-> "open", i |-> 0, issues |-> 0]

\* os.Open of both files, io.ReadFull of the header, the magic test: each
\* failure prints a FAIL line and returns.
SanOpen ==
    /\ san.pc = "open"
    /\ san' = [san EXCEPT !.pc =
                  IF san.dir.hasIdx /\ san.dir.hasData /\ san.dir.hdrFull
                     /\ san.dir.magicOK
                     THEN "loop" ELSE "fail"]
    /\ UNCHANGED <<ker, nonToolVars>>

\* One iteration of `for i := 0; i < count; i++`: a short read of the row
\* is `issues++; break`.
SanRowStep ==
    /\ san.pc = "loop"
    /\ san.i < san.dir.count
    /\ san' = IF san.i + 1 > Len(san.dir.rows)
                 THEN [san EXCEPT !.issues = @ + 1, !.pc = "done"]
                 ELSE [san EXCEPT !.i = @ + 1,
                                  !.issues = IF RowIssue(san.dir.rows[san.i + 1])
                                                THEN @ + 1 ELSE @]
    /\ UNCHANGED <<ker, nonToolVars>>

\* The loop ends; `if issues > 0` prints the ISSUES line.
SanLoopEnd ==
    /\ san.pc = "loop"
    /\ san.i >= san.dir.count
    /\ san' = [san EXCEPT !.pc = "done"]
    /\ UNCHANGED <<ker, nonToolVars>>

NextSanity == SanOpen \/ SanRowStep \/ SanLoopEnd
InitSpecSanity ==
    InitSanity /\ IdleData /\ IdleRing /\ IdleAlign /\ IdleStudy /\ IdleBuild
    /\ IdleKernel
SpecSanity == InitSpecSanity /\ [][NextSanity]_vars

\* The rows that the header counts.
IndexedRows == 1..san.dir.count
Present(i) == i <= Len(san.dir.rows)
Decoded(r) == r.Length > 0 /\ r.Readable /\ r.Inflates
ChecksumInv(r) == Decoded(r) /\ r.Blob.sum = r.Checksum
SizeInv(r) ==
    Decoded(r) /\ r.Blob.size = HeaderSize + r.Blob.rowCount * RowSize
MagicInv(r) == Decoded(r) /\ r.Blob.magic = AggMagic

\* C13 as stated: sanity reports zero issues for a month if and only if
\* every indexed row satisfies the checksum invariant and the size
\* invariant.
C13_ZeroIssuesIffChecksumAndSize ==
    san.pc = "done" =>
        (san.issues = 0 <=>
            \A i \in IndexedRows :
                /\ Present(i)
                /\ ChecksumInv(san.dir.rows[i])
                /\ SizeInv(san.dir.rows[i]))

\* C13, amended: sanity reports zero issues for a month if and only if
\* every indexed row satisfies the checksum invariant, the size invariant
\* and carries the AGG3 magic.
C13_ZeroIssuesIffRowsValid ==
    san.pc = "done" =>
        (san.issues = 0 <=>
            \A i \in IndexedRows :
                /\ Present(i)
                /\ ChecksumInv(san.dir.rows[i])
                /\ SizeInv(san.dir.rows[i])
                /\ MagicInv(san.dir.rows[i]))

\* A month with a valid row and a row whose checksum does not match has
\* been scanned to the end and one issue was counted.
C13_Witness ==
    /\ san.pc = "done"
    /\ san.dir.count = 2
    /\ san.i = 2
    /\ san.issues = 1
    /\ ~RowIssue(san.dir.rows[1])
    /\ ~ChecksumInv(san.dir.rows[2])

(***************************************************************************)
(* Enumeration of the days of a month written by the data command.         *)
(***************************************************************************)
\* The index file of month m as discoverTasks reads it.
IndexOf(m) ==
    [count |-> idxFile[m].count,
     rows |-> [k \in 1..Len(Rows(m)) |->
                  [D |-> Rows(m)[k].day, Offset |-> Rows(m)[k].offset,
                   Length |-> Rows(m)[k].length]]]
ListDays(m) ==
    {discoverTasks(IndexOf(m))[k].D : k \in 1..Len(discoverTasks(IndexOf(m)))}
\* Header present and the file is exactly the header and `count` rows.
WellFormed(m) == idxFile[m].hdr /\ idxFile[m].count = Len(Rows(m))

\* C14: for every month with a well-formed index, the days enumerated from
\* the index form a set whose size is the header count and whose elements
\* lie in 1..31; they are the days that isIndexed reports.
C14_ListedDaysMatchCount ==
    \A m \in Months :
        WellFormed(m) =>
            /\ Cardinality(ListDays(m)) = idxFile[m].count
            /\ ListDays(m) \subseteq 1..31
            /\ \A d \in 1..31 : isIndexed(idxFile[m], d) <=> d \in ListDays(m)

\* A month holds a well-formed index of two days, both enumerated.
C14_Witness ==
    \E m \in Months :
        /\ WellFormed(m)
        /\ Len(Rows(m)) = 2
        /\ Cardinality(ListDays(m)) = 2

\* C16: at horizon h = 0 the sweep pairs every entry with its own price:
\* every emitted pair has j = i and return 0, so the PnL s * r of every
\* pair is 0.
C16_ZeroHorizonZeroReturn ==
    \A k \in 1..Len(al.out) :
        /\ al.out[k].j = al.out[k].i
        /\ al.out[k].r[1] = 0
        /\ al.out[k].s * al.out[k].r[1] = 0

\* A run of buildVariant has been completed and no run is under way.
RunDone ==
    /\ runs >= 1
    /\ bJobs = <<>>
    /\ \A w \in Workers : bPc[w] = "idle"
EmptyDays == {r \in StoreRows : r.Blob = GoodBlob(0)}

\* C17 as stated: after a run of build, every stored day whose blob is a
\* valid header with row_count = 0 has a feature file of size 0.
C17_EmptyDayGetsEmptyFile ==
    RunDone =>
        \A r \in EmptyDays :
            featFile[RowPath(r)].exists /\ featFile[RowPath(r)].size = 0

(***************************************************************************)
(* The kernel engine (KernelState.Update).  A float64 is modelled in fixed *)
(* point: the integer x stands for x / Unit.  eps = 1e-12 is below the     *)
(* resolution and is left out of the sums it appears in (every divisor it  *)
(* is added to is positive).  math.Tanh is modelled by the odd, increasing *)
(* function x / (1 + |x|), which like tanh maps into (-1, 1).  The         *)
(* normalised quantities that steps 1-7 of Update leave in the state (the  *)
(* z-scores and the two quantile trackers) are finite numbers; each tick   *)
(* draws them from a grid.                                                 *)
(***************************************************************************)
Unit == 1000
KCfg ==
    [AlphaCoherence |-> 700, AlphaActTrend |-> 700, AlphaActTail |-> 1000,
     AlphaFlow |-> 500, AlphaAlign |-> 300, AlphaSlow |-> 700, AlphaR |-> 700,
     AlphaElastW |-> 700, AlphaFlatSlow |-> 700,
     VMid |-> 1500, Z0Mid |-> 750, ZHi0 |-> 500, VHi |-> 1500,
     S1 |-> 3000, S3 |-> 3000, S4 |-> 3000, S5 |-> 2000,
     B2 |-> 1500, B4 |-> 1000, KMax |-> 400]

FMul(a, b) == (a * b) \div Unit
FDiv(a, b) == (a * Unit) \div b
Max(a, b) == IF a >= b THEN a ELSE b
Min(a, b) == IF a <= b THEN a ELSE b
Copysign(m, x) == IF x < 0 THEN -Abs(m) ELSE Abs(m)
Tanh(x) == FDiv(x, Unit + Abs(x))

clamp(x, lo, hi) == IF x < lo THEN lo ELSE IF x > hi THEN hi ELSE x
softstep(x, k) == Unit \div 2 + FMul(Unit \div 2, Tanh(FMul(k, x)))

\* The normalised quantities after steps 1-7 of a tick.
KernelInputs ==
    [Zf : {-MaxZ * Unit, 0, MaxZ * Unit},
     Zs : {0, MaxZ * Unit},
     RFastZ : {-MaxZ * Unit, 0, MaxZ * Unit},
     ZVol : {0, MaxZ * Unit},
     ZAct : {-MaxZ * Unit, MaxZ * Unit},
     CZ : {-MaxZ * Unit, MaxZ * Unit},
     ZElast : {0, MaxZ * Unit},
     Q80 : {0, Unit},
     Q98 : {0}]

\* Step 8: the weights.
Weights(q) ==
    LET wCoherence == clamp(softstep(q.CZ, KCfg.AlphaCoherence),
                            Unit \div 20, (99 * Unit) \div 100)
        u == Max(Abs(q.ZVol) - KCfg.Z0Mid, 0)
        v == Max(q.ZVol - KCfg.ZHi0, 0)
    IN [WCoherence |-> wCoherence,
        WVolMid |-> FDiv(Unit, Unit + FMul(FDiv(u, KCfg.VMid), FDiv(u, KCfg.VMid))),
        WVolHi |-> Unit - FDiv(Unit, Unit + FMul(FDiv(v, KCfg.VHi),
                                                  FDiv(v, KCfg.VHi))),
        WActTrend |-> clamp((3 * Unit) \div 10
                            + FMul((7 * Unit) \div 10,
                                   softstep(q.ZAct, KCfg.AlphaActTrend)),
                            (3 * Unit) \div 10, Unit),
        WActTail |-> softstep(q.ZAct, KCfg.AlphaActTail),
        WNoise |-> clamp(Unit - wCoherence, 0, (95 * Unit) \div 100),
        WFlow |-> Tanh(FMul(KCfg.AlphaFlow, Abs(q.Zf)))]

computeK1(q, w) ==
    clamp(FDiv(FMul(FMul(FMul(w.WCoherence, w.WActTrend), w.WVolMid), q.Zf),
               KCfg.S1),
          -Unit, Unit)

\* The tail kernel without the price-confirmation gate.
computeK2Ungated(q, w) ==
    LET z0 == q.Q80
        z1 == IF q.Q98 < z0 + Unit \div 2 THEN z0 + Unit \div 2 ELSE q.Q98
        excess == Max(Abs(q.Zf) - z0, 0)
        tailFrac == clamp(FDiv(excess, z1 - z0), 0, Unit)
        g2 == Copysign(tailFrac, q.Zf)
    IN Tanh(FMul(KCfg.B2, FMul(FMul(w.WCoherence, w.WActTail), g2)))

computeK2(q, w) ==
    LET z0 == q.Q80
        z1 == IF q.Q98 < z0 + Unit \div 2 THEN z0 + Unit \div 2 ELSE q.Q98
        excess == Max(Abs(q.Zf) - z0, 0)
        tailFrac == clamp(FDiv(excess, z1 - z0), 0, Unit)
        g2 == IF q.Zf * q.RFastZ <= 0 THEN 0 ELSE Copysign(tailFrac, q.Zf)
    IN Tanh(FMul(KCfg.B2, FMul(FMul(w.WCoherence, w.WActTail), g2)))

computeK3(q, w) ==
    LET wSlowMag == Tanh(FMul(KCfg.AlphaSlow, Abs(q.Zs)))
        corrLike == Tanh(FMul(FMul(KCfg.AlphaAlign, q.Zs), q.Zf))
        alignment == (Unit + FMul(corrLike, wSlowMag)) \div 2
    IN clamp(FDiv(FMul(FMul(w.WCoherence, w.WVolMid), FMul(alignment, q.Zf)),
                  KCfg.S3),
             -Unit, Unit)

computeK4(q, w) ==
    LET impMag == Tanh(FMul(KCfg.AlphaR, Abs(q.RFastZ)))
        g4 == IF q.Zf * q.RFastZ > 0
                 THEN Copysign(Min(Abs(q.Zf), Abs(q.RFastZ)), q.Zf)
                 ELSE 0
        wImp == FMul(FMul(FMul(impMag, w.WVolHi), w.WActTail), w.WCoherence)
    IN Tanh(FMul(KCfg.B4, FMul(wImp, FDiv(g4, KCfg.S4))))

\* The overstretch kernel without its cap.
computeK5Uncapped(q, w) ==
    LET wOver == Tanh(FMul(KCfg.AlphaElastW, Max(q.ZElast - Unit, 0)))
        wFlat == Unit - Tanh(FMul(KCfg.AlphaFlatSlow, Abs(q.Zs)))
        w5 == FMul(FMul(FMul(wOver, wFlat), w.WNoise), w.WFlow)
    IN FDiv(FMul(w5, -q.Zf), KCfg.S5)

computeK5(q, w) ==
    LET wOver == Tanh(FMul(KCfg.AlphaElastW, Max(q.ZElast - Unit, 0)))
        wFlat == Unit - Tanh(FMul(KCfg.AlphaFlatSlow, Abs(q.Zs)))
        w5 == FMul(FMul(FMul(wOver, wFlat), w.WNoise), w.WFlow)
    IN clamp(FDiv(FMul(w5, -q.Zf), KCfg.S5), -KCfg.KMax, KCfg.KMax)

\* NewKernelState: nothing computed yet.
InitKernel ==
    ker = [q |-> [Zf |-> 0, Zs |-> 0, RFastZ |-> 0, ZVol |-> 0, ZAct |-> 0,
                  CZ |-> 0, ZElast |-> 0, Q80 |-> 0, Q98 |-> 0],
           Initialized |-> FALSE,
           K |-> <<0, 0, 0, 0, 0>>]

\* One tick: steps 1-7 leave the normalised quantities q, step 8 the
\* weights, step 9 the five kernels.
KernelUpdate ==
    /\ \E q \in KernelInputs :
          ker' = [q |-> q,
                  Initialized |-> TRUE,
                  K |-> <<computeK1(q, Weights(q)), computeK2(q, Weights(q)),
                          computeK3(q, Weights(q)), computeK4(q, Weights(q)),
                          computeK5(q, Weights(q))>>]
    /\ UNCHANGED <<san, nonToolVars>>

NextKernel == KernelUpdate
InitSpecKernel ==
    InitKernel /\ IdleData /\ IdleRing /\ IdleAlign /\ IdleStudy /\ IdleBuild
    /\ IdleSanity
SpecKernel == InitSpecKernel /\ [][NextKernel]_vars

\* C18: after every tick each of the five kernels lies in [-1, 1], and K5
\* lies in [-k_max, k_max] with k_max = 0.4.
C18_KernelsBounded ==
    /\ \A k \in 1..5 : -Unit <= ker.K[k] /\ ker.K[k] <= Unit
    /\ -KCfg.KMax <= ker.K[5] /\ ker.K[5] <= KCfg.KMax
    /\ 10 * KCfg.KMax = 4 * Unit

\* A tick with a large positive fast flow, low coherence and a stretched
\* elasticity: K5 is cut off at -k_max by its cap while K1 is positive.
C18_Witness ==
    /\ ker.Initialized
    /\ ker.q.Zf > 0
    /\ ker.K[5] = -KCfg.KMax
    /\ ker.K[1] > 0

(***************************************************************************)
(* The feature file as build writes it and as study reads it.  Ticks and   *)
(* dimensions count from 0; a value is identified by the set of byte       *)
(* positions of the file it occupies.                                      *)
(***************************************************************************)
\* binary.LittleEndian.PutUint32(binBuf[baseOff + 4k:], Float32bits(feats[k])).
WrittenBytes(i, k) ==
    LET baseOff == i * FeatRowBytes
    IN (baseOff + Float32Bytes * k)..(baseOff + Float32Bytes * k + Float32Bytes - 1)

\* if byteSize%(n*8) != 0 { continue }; dims := byteSize / (n*8);
\* if dims < 1 || dims > 5 { continue }.
StudyDims(byteSize, n) == byteSize \div (n * StudyValueBytes)
StudyAccepts(byteSize, n) ==
    /\ n # 0
    /\ byteSize % (n * StudyValueBytes) = 0
    /\ StudyDims(byteSize, n) >= 1
    /\ StudyDims(byteSize, n) <= StudyMaxDims

\* offset := (i*dims + dim) * 8; binary.LittleEndian.Uint64(rawSigs[offset:]).
ReadBytes(i, dim, dims) ==
    LET off == (i * dims + dim) * StudyValueBytes
    IN off..(off + StudyValueBytes - 1)

\* The stored days for which build wrote a complete feature file.
BuiltDays ==
    {r \in StoreRows :
        /\ CodecOK(r)
        /\ r.Blob.rowCount >= 1
        /\ featFile[RowPath(r)].exists
        /\ featFile[RowPath(r)].size = r.Blob.rowCount * FeatRowBytes}

\* C26: every feature file build wrote for a day of n >= 1 rows passes
\* study's size check, is read as 5 dimensions, and dimension k of tick i is
\* read from exactly the bytes build wrote for kernel k+1 of tick i.
C26_ReaderAgreesWithWriter ==
    \A r \in BuiltDays :
        LET n == r.Blob.rowCount
            size == featFile[RowPath(r)].size
        IN /\ StudyAccepts(size, n)
           /\ StudyDims(size, n) = StudyMaxDims
           /\ \A i \in 0..(n - 1) : \A k \in 0..(StudyMaxDims - 1) :
                 ReadBytes(i, k, StudyDims(size, n)) = WrittenBytes(i, k)

\* The entries for which the claimed condition holds: the price of the entry
\* is positive, the forward pointer stops at an index j < n, and the price
\* at j is positive.
PricedEntries ==
    {i \in 0..(Len(al.sig) - 1) :
        /\ al.prices[i + 1] > 0
        /\ \E j \in Reaching(i) :
              IsSmallestReaching(i, j) /\ al.prices[j + 1] > 0}

\* C27: when the sweep has ended, a pair has been emitted for entry i if and
\* only if its forward pointer stayed below n and both prices are positive,
\* and the number of emitted pairs (the moments count) is the number of such
\* entries.
C27_EmittedIffPointerInsideAndPricesPositive ==
    al.done =>
        /\ {al.out[k].i : k \in 1..Len(al.out)} = PricedEntries
        /\ Len(al.out) = Cardinality(PricedEntries)

\* C28: at every tick where Z_fast * r_fast_z <= 0, r_fast_z = 0 included,
\* the emitted K2 and K4 are exactly 0.
C28_GateZeroesK2AndK4 ==
    (ker.Initialized /\ ker.q.Zf * ker.q.RFastZ <= 0) =>
        ker.K[2] = 0 /\ ker.K[4] = 0

\* Flow and price disagree on a tick whose flow is in the tail and whose
\* weights are not zero (K1 is not 0): K2 and K4 are 0 only by the gate.
C28_Witness ==
    /\ ker.Initialized
    /\ ker.q.Zf > ker.q.Q80
    /\ ker.q.RFastZ < 0
    /\ ker.q.ZAct > 0
    /\ ker.K[1] # 0
    /\ ker.K[2] = 0
    /\ ker.K[4] = 0

\* C29: a step in which the write of a day's feature file fails (the file
\* is not left with its complete size) leaves no file at the day's output
\* path.
C29_FailedWriteLeavesNoFile ==
    [][\A w \in Workers :
          (/\ bPc[w] = "write"
           /\ bPc'[w] = "idle"
           /\ featFile'[OutPath(bTask[w])].size #
                  loadRawBlob(store, bTask[w]).rowCount * FeatRowBytes) =>
              ~featFile'[OutPath(bTask[w])].exists
      ]_vars

\* The divisor of the daily-IC aggregate (the mean and the t-stat of the
\* daily ICs): the number of daily ICs handed to FinalizeMetrics.
ICDays(ics) == Len(ics)

\* den of the daily IC of a day's moments; the day is degenerate (zero
\* signal variance or zero return variance) when it is not positive.
ICDenominator(m) ==
    (m.Count * m.SumSqSig - m.SumSig * m.SumSig)
        * (m.Count * m.SumSqRet - m.SumRet * m.SumRet)
MeasuredDays(days, v, h) ==
    {d \in WithPairs(days, v, h) : ICDenominator(DayMoments(d, v, h)) > 0}

\* C30: at the end of the study the divisor of each daily-IC aggregate is
\* the number of days of the partition whose IC denominator is not zero.
C30_DegenerateDaysNotInDivisor ==
    mainPc = "done" =>
        \A v \in DOMAIN acc.isDailyIC : \A h \in Horizons :
            /\ ICDays(acc.isDailyIC[v][h])
                  = Cardinality(MeasuredDays(ISDays, v, h))
            /\ ICDays(acc.oosDailyIC[v][h])
                  = Cardinality(MeasuredDays(OOSDays, v, h))

=============================================================================
